---------------------------- MODULE Spec2Model ----------------------------
(***************************************************************************)
(* A model of libxml2's character-encoding engine (encoding.c): the        *)
(* built-in transcoders, the chunked conversion engine with its escape     *)
(* fallback, the alias registry and the handler registry.                  *)
(*                                                                         *)
(* Bytes are integers 0..255, buffers are sequences of bytes, pointers     *)
(* into a buffer are offsets from its start.                               *)
(***************************************************************************)
EXTENDS Integers, Sequences, FiniteSets, TLC

(***************************************************************************)
(* Bounds of the model.                                                    *)
(***************************************************************************)
MaxCps == 3
MaxSrc == 6
MaxU16 == 3
MaxAllocs == 52

(***************************************************************************)
(* Program constants.                                                      *)
(***************************************************************************)
XML_ENC_ERR_SUCCESS == 0
XML_ENC_ERR_SPACE == -1
XML_ENC_ERR_INPUT == -2
XML_ENC_ERR_PARTIAL == -3
XML_ENC_ERR_INTERNAL == -4
XML_ENC_ERR_MEMORY == -5

XML_ERR_OK == 0
XML_ERR_INTERNAL_ERROR == 1
XML_ERR_NO_MEMORY == 2
XML_ERR_INVALID_ENCODING == 81
XML_ERR_UNSUPPORTED_ENCODING == 32
XML_ERR_ARGUMENT == 115
XML_ERR_SYSTEM == 116

NULL == "NULL"

VARIABLES
    xmlLittleEndian,            \* the machine's byte order, as xmlInitEncodingInternal finds it
    build,                      \* the build: which of iconv, ICU, the code pages, HTML are compiled in
    xmlCharEncodingAliases,     \* the alias table: [null, tab], tab the entries below Nb
    xmlCharEncodingAliasesNb,
    xmlCharEncodingAliasesMax,
    handlers,                   \* the registered handlers: [null, tab], tab the pointers below nb
    nbCharEncodingHandler,
    heap,                       \* the handlers allocated with xmlMalloc, by address
    aliasMap,                   \* the aliases added and not removed: uppercased alias -> name
    encoder,                    \* the handler of the stream being converted
    src,                        \* the bytes the caller supplied to the stream
    inBuf,                      \* the stream's input buffer: the bytes not yet consumed
    outBuf,                     \* the stream's output buffer
    error,                      \* the stream's error field (input->error, output->error)
    call                        \* the last call made and what it returned

regVars == <<xmlCharEncodingAliases, xmlCharEncodingAliasesNb, xmlCharEncodingAliasesMax,
             handlers, nbCharEncodingHandler, heap, aliasMap>>

convVars == <<encoder, src, inBuf, outBuf, error>>

vars == <<xmlLittleEndian, build, regVars, convVars, call>>

(***************************************************************************)
(* What a conversion function leaves behind: its return value, the bytes   *)
(* it stored at out, and the values of *outlen and *inlen on return.       *)
(***************************************************************************)
Res(ret, out, outlen, inlen) ==
    [ret |-> ret, out |-> out, outlen |-> outlen, inlen |-> inlen]

Take(s, n) == SubSeq(s, 1, IF n < Len(s) THEN n ELSE Len(s))

Drop(s, n) == SubSeq(s, (IF n < Len(s) THEN n ELSE Len(s)) + 1, Len(s))

Min(a, b) == IF a < b THEN a ELSE b

(***************************************************************************)
(* The lead byte of a UTF-8 sequence: the payload bits and the number of   *)
(* trailing bytes; ok is FALSE for a trailing byte in leading position     *)
(* (d < 0xC0) and for d >= 0xF8.                                           *)
(***************************************************************************)
Utf8Lead(d) ==
    IF d < 128 THEN [ok |-> TRUE, c |-> d, trailing |-> 0]
    ELSE IF d < 192 THEN [ok |-> FALSE, c |-> 0, trailing |-> 0]
    ELSE IF d < 224 THEN [ok |-> TRUE, c |-> d % 32, trailing |-> 1]
    ELSE IF d < 240 THEN [ok |-> TRUE, c |-> d % 16, trailing |-> 2]
    ELSE IF d < 248 THEN [ok |-> TRUE, c |-> d % 8, trailing |-> 3]
    ELSE [ok |-> FALSE, c |-> 0, trailing |-> 0]

(***************************************************************************)
(* for ( ; trailing; trailing--) { if ((in >= inend) ||                    *)
(*     (((d= *in++) & 0xC0) != 0x80)) break; c <<= 6; c |= d & 0x3F; }     *)
(* pos is in - instart.  A byte that is no trailing byte is read (in++)    *)
(* before the loop is left; bad says the loop was left that way.           *)
(***************************************************************************)
RECURSIVE Utf8Trail(_, _, _, _)
Utf8Trail(in, pos, c, trailing) ==
    IF trailing = 0 THEN [pos |-> pos, c |-> c, bad |-> FALSE]
    ELSE IF pos >= Len(in) THEN [pos |-> pos, c |-> c, bad |-> FALSE]
    ELSE IF in[pos + 1] \div 64 # 2 THEN [pos |-> pos + 1, c |-> c, bad |-> TRUE]
    ELSE Utf8Trail(in, pos + 1, c * 64 + (in[pos + 1] % 64), trailing - 1)

(***************************************************************************)
(* asciiToUTF8: i is in - base at the head of the loop (where processed    *)
(* equals in), out the bytes stored so far.                                *)
(***************************************************************************)
RECURSIVE asciiToUTF8_loop(_, _, _, _)
asciiToUTF8_loop(outlen, in, i, out) ==
    IF i < Len(in) /\ Len(out) + 5 < outlen
    THEN IF Len(out) >= outlen
         THEN Res(Len(out), out, Len(out), i)
         ELSE IF in[i + 1] < 128
         THEN asciiToUTF8_loop(outlen, in, i + 1, Append(out, in[i + 1]))
         ELSE Res(XML_ENC_ERR_INPUT, out, Len(out), i)
    ELSE Res(Len(out), out, Len(out), i)

asciiToUTF8(outlen, in) == asciiToUTF8_loop(outlen, in, 0, <<>>)

(***************************************************************************)
(* isolat1ToUTF8.  i is in - base, stop is instop - base, out the bytes    *)
(* stored so far, so that outend - out is outlen - Len(out).               *)
(***************************************************************************)
isolat1ToUTF8(outlen, in) ==
    LET Done(out, i) == Res(Len(out), out, Len(out), i)
        Last(i, out) ==
            IF i < Len(in) /\ Len(out) < outlen /\ in[i + 1] < 128
            THEN Done(Append(out, in[i + 1]), i + 1)
            ELSE Done(out, i)
        RECURSIVE outer(_, _, _)
        RECURSIVE copy(_, _, _)
        copy(i, out, stop) ==
            IF i < stop /\ in[i + 1] < 128
            THEN copy(i + 1, Append(out, in[i + 1]), stop)
            ELSE outer(i, out, stop)
        Limit(i, out, stop) ==
            copy(i, out, IF stop - i > outlen - Len(out) THEN i + (outlen - Len(out))
                         ELSE stop)
        outer(i, out, stop) ==
            IF i < Len(in) /\ Len(out) < outlen - 1
            THEN IF in[i + 1] >= 128
                 THEN Limit(i + 1, out \o <<192 + ((in[i + 1] \div 64) % 32),
                                            128 + (in[i + 1] % 64)>>, stop)
                 ELSE Limit(i, out, stop)
            ELSE Last(i, out)
    IN  outer(0, <<>>, Len(in))

(***************************************************************************)
(* UTF8ToUTF8: memcpy of the smaller of outlen and inlenb.                  *)
(***************************************************************************)
UTF8ToUTF8(outlen, inb, init) ==
    IF init THEN Res(0, <<>>, 0, 0)
    ELSE Res(Min(outlen, Len(inb)), Take(inb, Min(outlen, Len(inb))),
             Min(outlen, Len(inb)), Min(outlen, Len(inb)))

(***************************************************************************)
(* UTF8Toascii: processed is processed - instart, out the bytes stored.    *)
(***************************************************************************)
RECURSIVE UTF8Toascii_loop(_, _, _, _)
UTF8Toascii_loop(outlen, in, processed, out) ==
    LET Store(t) ==
            IF t.c < 128
            THEN IF Len(out) >= outlen
                 THEN Res(Len(out), out, Len(out), processed)
                 ELSE UTF8Toascii_loop(outlen, in, t.pos, Append(out, t.c))
            ELSE Res(XML_ENC_ERR_INPUT, out, Len(out), processed)
        Decode(lead, pos) ==
            IF ~lead.ok THEN Res(XML_ENC_ERR_INPUT, out, Len(out), processed)
            ELSE IF Len(in) - pos < lead.trailing
            THEN Res(Len(out), out, Len(out), processed)
            ELSE Store(Utf8Trail(in, pos, lead.c, lead.trailing))
    IN  IF processed >= Len(in) THEN Res(Len(out), out, Len(out), processed)
        ELSE Decode(Utf8Lead(in[processed + 1]), processed + 1)

UTF8Toascii(outlen, in, init) ==
    IF init THEN Res(0, <<>>, 0, 0)
    ELSE UTF8Toascii_loop(outlen, in, 0, <<>>)

(***************************************************************************)
(* UTF8Toisolat1: like UTF8Toascii, but a byte that is no trailing byte    *)
(* is an input error, and code points up to 0xFF are stored.               *)
(***************************************************************************)
RECURSIVE UTF8Toisolat1_loop(_, _, _, _)
UTF8Toisolat1_loop(outlen, in, processed, out) ==
    LET Store(t) ==
            IF t.bad THEN Res(XML_ENC_ERR_INPUT, out, Len(out), processed)
            ELSE IF t.c <= 255
            THEN IF Len(out) >= outlen
                 THEN Res(Len(out), out, Len(out), processed)
                 ELSE UTF8Toisolat1_loop(outlen, in, t.pos, Append(out, t.c))
            ELSE Res(XML_ENC_ERR_INPUT, out, Len(out), processed)
        Decode(lead, pos) ==
            IF ~lead.ok THEN Res(XML_ENC_ERR_INPUT, out, Len(out), processed)
            ELSE IF Len(in) - pos < lead.trailing
            THEN Res(Len(out), out, Len(out), processed)
            ELSE Store(Utf8Trail(in, pos, lead.c, lead.trailing))
    IN  IF processed >= Len(in) THEN Res(Len(out), out, Len(out), processed)
        ELSE Decode(Utf8Lead(in[processed + 1]), processed + 1)

UTF8Toisolat1(outlen, in, init) ==
    IF init THEN Res(0, <<>>, 0, 0)
    ELSE UTF8Toisolat1_loop(outlen, in, 0, <<>>)

(***************************************************************************)
(* An unsigned short read from, or stored to, two bytes of memory through  *)
(* an unsigned short pointer: the machine's byte order decides.            *)
(***************************************************************************)
Load16(b0, b1) == IF xmlLittleEndian THEN b0 + 256 * b1 ELSE 256 * b0 + b1

Store16(v) ==
    IF xmlLittleEndian THEN <<(v % 65536) % 256, (v % 65536) \div 256>>
    ELSE <<(v % 65536) \div 256, (v % 65536) % 256>>

(***************************************************************************)
(* The UTF-8 form of c as the UTF-16 decoders store it: the first byte,    *)
(* then for ( ; bits >= 0; bits-= 6) { if (out >= outend) break;           *)
(*     *out++= ((c >> bits) & 0x3F) | 0x80; }                              *)
(***************************************************************************)
Utf8First(c) ==
    IF c < 128 THEN c
    ELSE IF c < 2048 THEN ((c \div 64) % 32) + 192
    ELSE IF c < 65536 THEN ((c \div 4096) % 16) + 224
    ELSE ((c \div 262144) % 8) + 240

Utf8Bits(c) ==
    IF c < 128 THEN -6 ELSE IF c < 2048 THEN 0 ELSE IF c < 65536 THEN 6 ELSE 12

RECURSIVE Utf8Cont(_, _, _, _)
Utf8Cont(c, bits, out, outlen) ==
    IF bits < 0 THEN out
    ELSE IF Len(out) >= outlen THEN out
    ELSE Utf8Cont(c, bits - 6, Append(out, ((c \div (2 ^ bits)) % 64) + 128), outlen)

(***************************************************************************)
(* (c & 0x03FF) << 10 | (d & 0x03FF), + 0x10000                            *)
(***************************************************************************)
SurrogatePair_NoOffset(c, d) == (c % 1024) * 1024 + (d % 1024)

SurrogatePair(c, d) == (c % 1024) * 1024 + (d % 1024) + 65536

(***************************************************************************)
(* UTF16LEToUTF8 and UTF16BEToUTF8.  i counts the 16-bit units read (in),  *)
(* processed is processed - inb in bytes, inlen the number of whole units. *)
(* unit(k) is the k-th unit as the function reads it.                      *)
(***************************************************************************)
UnitLE(inb, k) ==
    IF xmlLittleEndian THEN Load16(inb[2 * k + 1], inb[2 * k + 2])
    ELSE inb[2 * k + 1] + 256 * inb[2 * k + 2]

UnitBE(inb, k) ==
    IF xmlLittleEndian THEN inb[2 * k + 1] * 256 + inb[2 * k + 2]
    ELSE Load16(inb[2 * k + 1], inb[2 * k + 2])

RECURSIVE UTF16ToUTF8_loop(_, _, _, _, _, _)
UTF16ToUTF8_loop(le, outlen, inb, i, processed, out) ==
    LET unit(k) == IF le THEN UnitLE(inb, k) ELSE UnitBE(inb, k)
        Store(c, next) ==
            IF Len(out) >= outlen
            THEN Res(Len(out), out, Len(out), processed)
            ELSE UTF16ToUTF8_loop(le, outlen, inb, next, 2 * next,
                     Utf8Cont(c, Utf8Bits(c), Append(out, Utf8First(c)), outlen))
        Decode(inlen, c0, surrogate) ==
            IF surrogate /\ i + 1 >= inlen
            THEN Res(Len(out), out, Len(out), processed)
            ELSE IF surrogate /\ unit(i + 1) \div 1024 # 55
            THEN Res(XML_ENC_ERR_INPUT, out, Len(out), processed)
            ELSE IF surrogate THEN Store(SurrogatePair(c0, unit(i + 1)), i + 2)
            ELSE Store(c0, i + 1)
    IN  IF i < Len(inb) \div 2 /\ Len(out) + 5 < outlen
        THEN Decode(Len(inb) \div 2, unit(i), unit(i) \div 1024 = 54)
        ELSE Res(Len(out), out, Len(out), processed)

UTF16LEToUTF8(outlen, inb) ==
    IF outlen = 0 THEN Res(0, <<>>, 0, 0)
    ELSE UTF16ToUTF8_loop(TRUE, outlen, inb, 0, 0, <<>>)

UTF16BEToUTF8(outlen, inb) ==
    IF outlen = 0 THEN Res(0, <<>>, 0, 0)
    ELSE UTF16ToUTF8_loop(FALSE, outlen, inb, 0, 0, <<>>)

(***************************************************************************)
(* One 16-bit unit as UTF8ToUTF16LE and UTF8ToUTF16BE store it.            *)
(***************************************************************************)
PutLE(v) ==
    IF xmlLittleEndian THEN Store16(v)
    ELSE <<v % 256, (v \div 256) % 256>>

PutBE(v) ==
    IF xmlLittleEndian THEN <<(v \div 256) % 256, v % 256>>
    ELSE Store16(v)

(***************************************************************************)
(* UTF8ToUTF16LE: out holds the bytes stored, so out - outstart is         *)
(* Len(out) \div 2 units and outend - outstart is outlen \div 2.           *)
(***************************************************************************)
RECURSIVE UTF8ToUTF16LE_loop(_, _, _, _)
UTF8ToUTF16LE_loop(outlen, in, processed, out) ==
    LET Store(units, outend, t) ==
            IF t.c < 65536
            THEN IF units >= outend
                 THEN Res(units * 2, out, units * 2, processed)
                 ELSE UTF8ToUTF16LE_loop(outlen, in, t.pos, out \o PutLE(t.c))
            ELSE IF t.c < 1114112
            THEN IF units + 1 >= outend
                 THEN Res(units * 2, out, units * 2, processed)
                 ELSE UTF8ToUTF16LE_loop(outlen, in, t.pos,
                          out \o PutLE(55296 + ((t.c - 65536) \div 1024))
                              \o PutLE(56320 + ((t.c - 65536) % 1024)))
            ELSE Res(units * 2, out, units * 2, processed)
        Decode(units, outend, lead, pos) ==
            IF ~lead.ok THEN Res(XML_ENC_ERR_INPUT, out, units * 2, processed)
            ELSE IF Len(in) - pos < lead.trailing
            THEN Res(units * 2, out, units * 2, processed)
            ELSE Store(units, outend, Utf8Trail(in, pos, lead.c, lead.trailing))
        Loop(units, outend) ==
            IF processed >= Len(in) THEN Res(units * 2, out, units * 2, processed)
            ELSE Decode(units, outend, Utf8Lead(in[processed + 1]), processed + 1)
    IN  Loop(Len(out) \div 2, outlen \div 2)

UTF8ToUTF16LE(outlen, in, init) ==
    IF init THEN Res(0, <<>>, 0, 0)
    ELSE UTF8ToUTF16LE_loop(outlen, in, 0, <<>>)

(***************************************************************************)
(* UTF8ToUTF16: the initialization call (in == NULL) stores the byte       *)
(* order mark FF FE when two bytes fit.                                    *)
(***************************************************************************)
UTF8ToUTF16(outlen, in, init) ==
    IF init
    THEN IF outlen >= 2 THEN Res(2, <<255, 254>>, 2, 0) ELSE Res(0, <<>>, 0, 0)
    ELSE UTF8ToUTF16LE(outlen, in, init)

(***************************************************************************)
(* UTF8ToUTF16BE: as UTF8ToUTF16LE, but the two returns for a bad lead     *)
(* byte set *outlen to out - outstart, a count of units.                   *)
(***************************************************************************)
RECURSIVE UTF8ToUTF16BE_loop(_, _, _, _)
UTF8ToUTF16BE_loop(outlen, in, processed, out) ==
    LET Store(units, outend, t) ==
            IF t.c < 65536
            THEN IF units >= outend
                 THEN Res(units * 2, out, units * 2, processed)
                 ELSE UTF8ToUTF16BE_loop(outlen, in, t.pos, out \o PutBE(t.c))
            ELSE IF t.c < 1114112
            THEN IF units + 1 >= outend
                 THEN Res(units * 2, out, units * 2, processed)
                 ELSE UTF8ToUTF16BE_loop(outlen, in, t.pos,
                          out \o PutBE(55296 + ((t.c - 65536) \div 1024))
                              \o PutBE(56320 + ((t.c - 65536) % 1024)))
            ELSE Res(units * 2, out, units * 2, processed)
        Decode(units, outend, lead, pos) ==
            IF ~lead.ok THEN Res(XML_ENC_ERR_INPUT, out, units, processed)
            ELSE IF Len(in) - pos < lead.trailing
            THEN Res(units * 2, out, units * 2, processed)
            ELSE Store(units, outend, Utf8Trail(in, pos, lead.c, lead.trailing))
        Loop(units, outend) ==
            IF processed >= Len(in) THEN Res(units * 2, out, units * 2, processed)
            ELSE Decode(units, outend, Utf8Lead(in[processed + 1]), processed + 1)
    IN  Loop(Len(out) \div 2, outlen \div 2)

UTF8ToUTF16BE(outlen, in, init) ==
    IF init THEN Res(0, <<>>, 0, 0)
    ELSE UTF8ToUTF16BE_loop(outlen, in, 0, <<>>)

(***************************************************************************)
(* Encoding names are sequences of characters.                             *)
(***************************************************************************)
N_ISO_8859 == <<"I", "S", "O", "-", "8", "8", "5", "9", "-">>
N_UTF_16 == <<"U", "T", "F", "-", "1", "6">>
N_UTF_16LE == N_UTF_16 \o <<"L", "E">>
N_UTF_16BE == N_UTF_16 \o <<"B", "E">>
N_ISO_8859_1 == N_ISO_8859 \o <<"1">>
N_ISO_8859_2 == N_ISO_8859 \o <<"2">>
N_ASCII == <<"A", "S", "C", "I", "I">>
N_US_ASCII == <<"U", "S", "-">> \o N_ASCII
N_HTML == <<"H", "T", "M", "L">>

(***************************************************************************)
(* MAKE_HANDLER(name, in, out): a handler with no iconv and no ICU         *)
(* converter (EMPTY_ICONV, EMPTY_UCONV).                                   *)
(***************************************************************************)
MAKE_HANDLER(name, in, out) ==
    [name |-> name, input |-> in, output |-> out,
     iconv_in |-> NULL, iconv_out |-> NULL, uconv_in |-> NULL, uconv_out |-> NULL]

IsoHandler(n) ==
    MAKE_HANDLER(N_ISO_8859 \o n, "ISO8859xToUTF8", "UTF8ToISO8859x")

(***************************************************************************)
(* defaultHandlers, for a build with LIBXML_OUTPUT_ENABLED.  The "HTML"    *)
(* entry exists with LIBXML_HTML_ENABLED, the table-driven code pages      *)
(* without iconv and ICU and with LIBXML_ISO8859X_ENABLED.                 *)
(***************************************************************************)
defaultHandlers_base ==
    <<MAKE_HANDLER(N_UTF_16LE, "UTF16LEToUTF8", "UTF8ToUTF16LE"),
      MAKE_HANDLER(N_UTF_16BE, "UTF16BEToUTF8", "UTF8ToUTF16BE"),
      MAKE_HANDLER(N_UTF_16, "UTF16LEToUTF8", "UTF8ToUTF16"),
      MAKE_HANDLER(N_ISO_8859_1, "isolat1ToUTF8", "UTF8Toisolat1"),
      MAKE_HANDLER(N_ASCII, "asciiToUTF8", "UTF8Toascii"),
      MAKE_HANDLER(N_US_ASCII, "asciiToUTF8", "UTF8Toascii")>>

defaultHandlers_html == <<MAKE_HANDLER(N_HTML, NULL, "UTF8ToHtml")>>

defaultHandlers_iso8859x ==
    <<IsoHandler(<<"2">>), IsoHandler(<<"3">>), IsoHandler(<<"4">>),
      IsoHandler(<<"5">>), IsoHandler(<<"6">>), IsoHandler(<<"7">>),
      IsoHandler(<<"8">>), IsoHandler(<<"9">>), IsoHandler(<<"1", "0">>),
      IsoHandler(<<"1", "1">>), IsoHandler(<<"1", "3">>),
      IsoHandler(<<"1", "4">>), IsoHandler(<<"1", "5">>),
      IsoHandler(<<"1", "6">>)>>

defaultHandlers(b) ==
    defaultHandlers_base
    \o (IF b.html THEN defaultHandlers_html ELSE <<>>)
    \o (IF ~b.iconv /\ ~b.icu /\ b.iso8859x THEN defaultHandlers_iso8859x ELSE <<>>)

NUM_DEFAULT_HANDLERS(b) == Len(defaultHandlers(b))

(***************************************************************************)
(* Pointers to handlers: NULL, an entry of defaultHandlers, or the address *)
(* of a handler on the heap.                                               *)
(***************************************************************************)
NullHandler == [seg |-> "null", idx |-> 0]

DefaultRef(i) == [seg |-> "default", idx |-> i]

HeapRef(i) == [seg |-> "heap", idx |-> i]

Deref(h) ==
    IF h.seg = "default" THEN defaultHandlers(build)[h.idx] ELSE heap[h.idx].h

xmlUTF16LEHandler == DefaultRef(1)
xmlUTF16BEHandler == DefaultRef(2)
xmlLatin1Handler == DefaultRef(4)
xmlAsciiHandler == DefaultRef(5)

(***************************************************************************)
(* A call through handler->input or handler->output.                       *)
(***************************************************************************)
CallInput(f, outlen, in) ==
    CASE f = "asciiToUTF8" -> asciiToUTF8(outlen, in)
      [] f = "UTF16LEToUTF8" -> UTF16LEToUTF8(outlen, in)
      [] f = "UTF16BEToUTF8" -> UTF16BEToUTF8(outlen, in)
      [] f = "isolat1ToUTF8" -> isolat1ToUTF8(outlen, in)
      [] f = "UTF8ToUTF8" -> UTF8ToUTF8(outlen, in, FALSE)

CallOutput(f, outlen, in, init) ==
    CASE f = "UTF8Toascii" -> UTF8Toascii(outlen, in, init)
      [] f = "UTF8Toisolat1" -> UTF8Toisolat1(outlen, in, init)
      [] f = "UTF8ToUTF16LE" -> UTF8ToUTF16LE(outlen, in, init)
      [] f = "UTF8ToUTF16BE" -> UTF8ToUTF16BE(outlen, in, init)
      [] f = "UTF8ToUTF16" -> UTF8ToUTF16(outlen, in, init)
      [] f = "UTF8ToUTF8" -> UTF8ToUTF8(outlen, in, init)

(***************************************************************************)
(* xmlIconvWrapper and xmlUconvWrapper.  x is what the library call did:   *)
(* the bytes it stored, the input bytes it consumed and its error.         *)
(***************************************************************************)
xmlIconvWrapper(x, outlen, in, init) ==
    IF init THEN Res(XML_ENC_ERR_INTERNAL, <<>>, 0, 0)
    ELSE Res(CASE x.err = "EILSEQ" -> XML_ENC_ERR_INPUT
               [] x.err = "E2BIG" -> XML_ENC_ERR_SPACE
               [] x.err = "EINVAL" -> XML_ENC_ERR_PARTIAL
               [] x.err = "none" -> XML_ENC_ERR_SUCCESS
               [] OTHER -> XML_ENC_ERR_INTERNAL,
             x.out, Len(x.out), x.consumed)

xmlUconvWrapper(x, outlen, in, init) ==
    IF init THEN Res(XML_ENC_ERR_INTERNAL, <<>>, 0, 0)
    ELSE Res(CASE x.err = "none" -> XML_ENC_ERR_SUCCESS
               [] x.err = "U_BUFFER_OVERFLOW_ERROR" -> XML_ENC_ERR_SPACE
               [] x.err \in {"U_INVALID_CHAR_FOUND", "U_ILLEGAL_CHAR_FOUND"}
                    -> XML_ENC_ERR_INPUT
               [] OTHER -> XML_ENC_ERR_PARTIAL,
             x.out, Len(x.out), x.consumed)

(***************************************************************************)
(* The built-in converters don't signal XML_ENC_ERR_SPACE: the chunk       *)
(* functions derive it from the counts.                                    *)
(***************************************************************************)
Classify(r, oldinlen) ==
    IF r.ret >= 0
    THEN IF r.inlen < oldinlen
         THEN IF r.outlen > 0
              THEN [r EXCEPT !.ret = XML_ENC_ERR_SPACE]
              ELSE [r EXCEPT !.ret = XML_ENC_ERR_PARTIAL]
         ELSE [r EXCEPT !.ret = XML_ENC_ERR_SUCCESS]
    ELSE r

xmlEncInputChunk_KeepPartial(handler, outlen, in, x) ==
    IF handler.input # NULL
    THEN Classify(CallInput(handler.input, outlen, in), Len(in))
    ELSE IF handler.iconv_in # NULL
    THEN xmlIconvWrapper(x, outlen, in, FALSE)
    ELSE IF handler.uconv_in # NULL
    THEN xmlUconvWrapper(x, outlen, in, FALSE)
    ELSE Res(XML_ENC_ERR_INTERNAL, <<>>, 0, 0)

xmlEncInputChunk(handler, outlen, in, x) ==
    LET Return(r) ==
            IF r.ret = XML_ENC_ERR_PARTIAL
            THEN [r EXCEPT !.ret = XML_ENC_ERR_SUCCESS]
            ELSE r
    IN  Return(IF handler.input # NULL
               THEN Classify(CallInput(handler.input, outlen, in), Len(in))
               ELSE IF handler.iconv_in # NULL
               THEN xmlIconvWrapper(x, outlen, in, FALSE)
               ELSE IF handler.uconv_in # NULL
               THEN xmlUconvWrapper(x, outlen, in, FALSE)
               ELSE Res(XML_ENC_ERR_INTERNAL, <<>>, 0, 0))

xmlEncOutputChunk(handler, outlen, in, init, x) ==
    LET Return(r) ==
            IF r.ret = XML_ENC_ERR_PARTIAL
            THEN [r EXCEPT !.ret = XML_ENC_ERR_INTERNAL]
            ELSE r
    IN  Return(IF handler.output # NULL
               THEN Classify(CallOutput(handler.output, outlen, in, init),
                             IF init THEN 0 ELSE Len(in))
               ELSE IF handler.iconv_out # NULL
               THEN xmlIconvWrapper(x, outlen, in, init)
               ELSE IF handler.uconv_out # NULL
               THEN xmlUconvWrapper(x, outlen, in, init)
               ELSE Res(XML_ENC_ERR_INTERNAL, <<>>, 0, 0))

(***************************************************************************)
(* xmlEncConvertError                                                      *)
(***************************************************************************)
xmlEncConvertError(code) ==
    CASE code = XML_ENC_ERR_SUCCESS -> XML_ERR_OK
      [] code = XML_ENC_ERR_INPUT -> XML_ERR_INVALID_ENCODING
      [] code = XML_ENC_ERR_MEMORY -> XML_ERR_NO_MEMORY
      [] OTHER -> XML_ERR_INTERNAL_ERROR

(***************************************************************************)
(* The growable byte buffer (xmlBuf, and xmlBuffer for the xmlBuffer       *)
(* front-ends): the bytes in use, the allocated size, and the error flag   *)
(* an allocation failure leaves.  One byte of the size is the terminating  *)
(* 0.  fail says whether the reallocation, if one is needed, fails.        *)
(***************************************************************************)
NewBuf(content, size) == [content |-> content, size |-> size, error |-> FALSE]

xmlBufUse(buf) == Len(buf.content)

xmlBufAvail(buf) ==
    IF buf.error THEN 0
    ELSE IF buf.size > Len(buf.content) THEN buf.size - Len(buf.content) - 1
    ELSE 0

xmlBufGrow(buf, len, fail) ==
    LET use == Len(buf.content)
        size == IF buf.size > len THEN buf.size * 2 ELSE use + len + 100
    IN  IF len = 0 THEN [ret |-> 0, buf |-> buf, realloc |-> FALSE]
        ELSE IF buf.error THEN [ret |-> -1, buf |-> buf, realloc |-> FALSE]
        ELSE IF len < buf.size - use
        THEN [ret |-> buf.size - use - 1, buf |-> buf, realloc |-> FALSE]
        ELSE IF fail
        THEN [ret |-> -1, buf |-> [buf EXCEPT !.error = TRUE], realloc |-> TRUE]
        ELSE [ret |-> size - use - 1, buf |-> [buf EXCEPT !.size = size],
              realloc |-> TRUE]

xmlBufShrink(buf, len) ==
    IF buf.error \/ len > Len(buf.content) THEN buf
    ELSE [buf EXCEPT !.content = Drop(buf.content, len)]

(* xmlBufAddLen: the len bytes the converter stored at xmlBufEnd(buf)     *)
(* come into use.                                                          *)
xmlBufAddLen(buf, stored, len) ==
    IF buf.error \/ len >= buf.size - Len(buf.content) THEN buf
    ELSE [buf EXCEPT !.content = buf.content \o Take(stored, len)]

(***************************************************************************)
(* xmlGetUTF8Char: the code point of the UTF-8 sequence at utf and its     *)
(* length; cur is -1 and len 0 when the bytes are no valid sequence.       *)
(***************************************************************************)
xmlGetUTF8Char(utf, len) ==
    LET err == [cur |-> -1, len |-> 0]
        trail(k) == len >= k /\ utf[k] \div 64 = 2
        c == utf[1]
    IN  IF len < 1 THEN err
        ELSE IF c < 128 THEN [cur |-> c, len |-> 1]
        ELSE IF ~trail(2) THEN err
        ELSE IF c < 224
        THEN IF c < 194 THEN err
             ELSE [cur |-> (c % 32) * 64 + (utf[2] % 64), len |-> 2]
        ELSE IF ~trail(3) THEN err
        ELSE IF c < 240
        THEN LET v == (c % 16) * 4096 + (utf[2] % 64) * 64 + (utf[3] % 64)
             IN  IF v < 2048 \/ (v >= 55296 /\ v < 57344) THEN err
                 ELSE [cur |-> v, len |-> 3]
        ELSE IF ~trail(4) THEN err
        ELSE LET v == (c % 8) * 262144 + (utf[2] % 64) * 4096
                      + (utf[3] % 64) * 64 + (utf[4] % 64)
             IN  IF v < 65536 \/ v >= 1114112 THEN err
                 ELSE [cur |-> v, len |-> 4]

(***************************************************************************)
(* snprintf(charref, sizeof(charref), "&#%d;", cur), cur > 0.              *)
(***************************************************************************)
RECURSIVE Decimal(_)
Decimal(n) ==
    IF n < 10 THEN <<48 + n>> ELSE Append(Decimal(n \div 10), 48 + (n % 10))

CharRef_Unterminated(cur) == <<38, 35>> \o Decimal(cur)

CharRef(cur) == <<38, 35>> \o Decimal(cur) \o <<59>>

(***************************************************************************)
(* What the environment does during one call: failAt = k makes the k-th    *)
(* reallocation of the call fail (0: none fails); oracle lists what the    *)
(* iconv or ICU library does at each conversion call it gets.  n counts    *)
(* the reallocations and the conversion calls made so far.                 *)
(***************************************************************************)
NoEnv == [failAt |-> 0, oracle |-> <<>>]

Fails(env, n) == env.failAt = n.grows + 1

Oracle(env, n) ==
    IF n.calls < Len(env.oracle) THEN env.oracle[n.calls + 1]
    ELSE [out |-> <<>>, consumed |-> 0, err |-> "none"]

Grew(n, g) == IF g.realloc THEN [n EXCEPT !.grows = @ + 1] ELSE n

Called(n) == [n EXCEPT !.calls = @ + 1]

(***************************************************************************)
(* The results of xmlCharEncOutput, xmlCharEncOutFunc and xmlCharEncInput  *)
(* carry, in args, the values of c_in and c_out at each call of the chunk  *)
(* function the retry label or the loop made with text to convert, in the  *)
(* order of the calls, and in left the bytes of the source buffer not yet  *)
(* converted at that call.                                                 *)
(***************************************************************************)
Passed(left, c_in, c_out, r) ==
    [r EXCEPT !.args = <<[left |-> left, c_in |-> c_in, c_out |-> c_out]>> \o @]

(***************************************************************************)
(* xmlCharEncOutput, the error: label: the value returned and the value of *)
(* output->error.                                                          *)
(***************************************************************************)
xmlCharEncOutput_error(ret, writtentot, in, out, err) ==
    IF (writtentot <= 0 /\ ret # 0) \/ ret = XML_ENC_ERR_MEMORY
    THEN [ret |-> ret, in |-> in, out |-> out,
          error |-> IF err = 0 THEN xmlEncConvertError(ret) ELSE err, args |-> <<>>]
    ELSE [ret |-> writtentot, in |-> in, out |-> out, error |-> err, args |-> <<>>]

(***************************************************************************)
(* xmlCharEncOutput without init, from the retry: label.  in is            *)
(* output->buffer, out is output->conv.                                    *)
(***************************************************************************)
RECURSIVE xmlCharEncOutput_retry(_, _, _, _, _, _, _)
xmlCharEncOutput_retry_EscapeTwice(enc, in, out, writtentot, err, env, n) ==
    LET toconv == Min(xmlBufUse(in), 64 * 1024)
        (* lines 2501-2532: ret is XML_ENC_ERR_INPUT, u is what            *)
        (* xmlGetUTF8Char found at the head of the input                   *)
        Escape(in1, out1, tot1, n2, ret, u) ==
            LET Encode(charref, g2, n3) ==
                    LET Finish(r2) ==
                            IF r2.ret < 0 \/ r2.inlen # Len(charref)
                            THEN xmlCharEncOutput_error(XML_ENC_ERR_INTERNAL, tot1,
                                                        in1, g2.buf, err)
                            ELSE xmlCharEncOutput_retry(enc,
                                     xmlBufShrink(in1, IF n3.calls < 2 THEN 0 ELSE u.len),
                                     xmlBufAddLen(g2.buf, r2.out, r2.outlen),
                                     tot1 + r2.outlen, err, env, Called(n3))
                    IN  Finish(xmlEncOutputChunk(enc, xmlBufAvail(g2.buf), charref,
                                                 FALSE, Oracle(env, n3)))
                Grow(charref, g2) == Encode(charref, g2, Grew(n2, g2))
            IN  IF u.cur <= 0
                THEN xmlCharEncOutput_error(ret, tot1, in1, out1, err)
                ELSE Grow(CharRef(u.cur),
                          xmlBufGrow(out1, Len(CharRef(u.cur)) * 4, Fails(env, n2)))
        (* lines 2491-2532: r is what xmlEncOutputChunk did *)
        Converted(g, n1, r) ==
            LET After(in1, out1, tot1) ==
                    IF r.ret = XML_ENC_ERR_SPACE
                    THEN xmlCharEncOutput_retry(enc, in1, out1, tot1, err, env, Called(n1))
                    ELSE IF r.ret = XML_ENC_ERR_INPUT
                    THEN Escape(in1, out1, tot1, Called(n1), r.ret,
                                xmlGetUTF8Char(in1.content, xmlBufUse(in1)))
                    ELSE xmlCharEncOutput_error(r.ret, tot1, in1, out1, err)
            IN  After(xmlBufShrink(in, r.inlen), xmlBufAddLen(g.buf, r.out, r.outlen),
                      writtentot + r.outlen)
        (* lines 2477-2490: g is what xmlBufGrow did, if it was called *)
        Grown(g, n1) ==
            IF g.ret < 0
            THEN xmlCharEncOutput_error(XML_ENC_ERR_MEMORY, writtentot, in, g.buf, err)
            ELSE Passed(xmlBufUse(in), toconv, Min(xmlBufAvail(g.buf), 256 * 1024),
                     Converted(g, n1,
                         xmlEncOutputChunk(enc, Min(xmlBufAvail(g.buf), 256 * 1024),
                                           Take(in.content, toconv), FALSE,
                                           Oracle(env, n1))))
        Start(g) == Grown(g, Grew(n, g))
    IN  Start(IF toconv * 4 >= xmlBufAvail(out)
              THEN xmlBufGrow(out, toconv * 4, Fails(env, n))
              ELSE [ret |-> 0, buf |-> out, realloc |-> FALSE])

xmlCharEncOutput_retry(enc, in, out, writtentot, err, env, n) ==
    LET toconv == Min(xmlBufUse(in), 64 * 1024)
        (* lines 2501-2532: ret is XML_ENC_ERR_INPUT, u is what            *)
        (* xmlGetUTF8Char found at the head of the input                   *)
        Escape(in1, out1, tot1, n2, ret, u) ==
            LET Encode(charref, g2, n3) ==
                    LET Finish(r2) ==
                            IF r2.ret < 0 \/ r2.inlen # Len(charref)
                            THEN xmlCharEncOutput_error(XML_ENC_ERR_INTERNAL, tot1,
                                                        in1, g2.buf, err)
                            ELSE xmlCharEncOutput_retry(enc, xmlBufShrink(in1, u.len),
                                     xmlBufAddLen(g2.buf, r2.out, r2.outlen),
                                     tot1 + r2.outlen, err, env, Called(n3))
                    IN  Finish(xmlEncOutputChunk(enc, xmlBufAvail(g2.buf), charref,
                                                 FALSE, Oracle(env, n3)))
                Grow(charref, g2) == Encode(charref, g2, Grew(n2, g2))
            IN  IF u.cur <= 0
                THEN xmlCharEncOutput_error(ret, tot1, in1, out1, err)
                ELSE Grow(CharRef(u.cur),
                          xmlBufGrow(out1, Len(CharRef(u.cur)) * 4, Fails(env, n2)))
        (* lines 2491-2532: r is what xmlEncOutputChunk did *)
        Converted(g, n1, r) ==
            LET After(in1, out1, tot1) ==
                    IF r.ret = XML_ENC_ERR_SPACE
                    THEN xmlCharEncOutput_retry(enc, in1, out1, tot1, err, env, Called(n1))
                    ELSE IF r.ret = XML_ENC_ERR_INPUT
                    THEN Escape(in1, out1, tot1, Called(n1), r.ret,
                                xmlGetUTF8Char(in1.content, xmlBufUse(in1)))
                    ELSE xmlCharEncOutput_error(r.ret, tot1, in1, out1, err)
            IN  After(xmlBufShrink(in, r.inlen), xmlBufAddLen(g.buf, r.out, r.outlen),
                      writtentot + r.outlen)
        (* lines 2477-2490: g is what xmlBufGrow did, if it was called *)
        Grown(g, n1) ==
            IF g.ret < 0
            THEN xmlCharEncOutput_error(XML_ENC_ERR_MEMORY, writtentot, in, g.buf, err)
            ELSE Passed(xmlBufUse(in), toconv, Min(xmlBufAvail(g.buf), 256 * 1024),
                     Converted(g, n1,
                         xmlEncOutputChunk(enc, Min(xmlBufAvail(g.buf), 256 * 1024),
                                           Take(in.content, toconv), FALSE,
                                           Oracle(env, n1))))
        Start(g) == Grown(g, Grew(n, g))
    IN  Start(IF toconv * 4 >= xmlBufAvail(out)
              THEN xmlBufGrow(out, toconv * 4, Fails(env, n))
              ELSE [ret |-> 0, buf |-> out, realloc |-> FALSE])

(***************************************************************************)
(* xmlCharEncOutput.  With init the handler is called once with in ==      *)
(* NULL and its return value is not looked at.                             *)
(***************************************************************************)
xmlCharEncOutput(enc, in, out, err, init, env) ==
    IF init
    THEN LET Return(r) ==
                 [ret |-> r.outlen, in |-> in,
                  out |-> xmlBufAddLen(out, r.out, r.outlen), error |-> err,
                  args |-> <<>>]
         IN  Return(xmlEncOutputChunk(enc, xmlBufAvail(out), <<>>, TRUE,
                                      Oracle(env, [grows |-> 0, calls |-> 0])))
    ELSE xmlCharEncOutput_retry(enc, in, out, 0, err, env, [grows |-> 0, calls |-> 0])

(***************************************************************************)
(* The xmlBuffer operations xmlCharEncOutFunc uses: an xmlBuffer has no    *)
(* error flag, and a failed reallocation leaves it as it was.              *)
(***************************************************************************)
xmlBufferGrow(buf, len, fail) ==
    LET use == Len(buf.content)
    IN  IF len < buf.size - use
        THEN [ret |-> 0, buf |-> buf, realloc |-> FALSE]
        ELSE IF fail THEN [ret |-> -1, buf |-> buf, realloc |-> TRUE]
        ELSE [ret |-> len + 100 - 1, buf |-> [buf EXCEPT !.size = use + len + 100],
              realloc |-> TRUE]

xmlBufferShrink(buf, len) ==
    IF len > Len(buf.content) THEN buf
    ELSE [buf EXCEPT !.content = Drop(buf.content, len)]

(***************************************************************************)
(* xmlCharEncOutFunc with in # NULL, from the retry: label.                *)
(***************************************************************************)
RECURSIVE xmlCharEncOutFunc_retry(_, _, _, _, _, _)
xmlCharEncOutFunc_retry(handler, out, in, writtentot, env, n) ==
    LET use == Len(out.content)
        written0 == IF out.size - use > 0 THEN out.size - use - 1 ELSE 0
        toconv == Len(in.content)
        (* lines 2613-2643 *)
        Escape(in1, out1, tot1, n2, ret, u) ==
            LET Encode(charref, g2, n3) ==
                    LET Finish(r2) ==
                            IF r2.ret < 0 \/ r2.inlen # Len(charref)
                            THEN [ret |-> XML_ENC_ERR_INTERNAL,
                                  in |-> xmlBufferShrink(in1, u.len), out |-> g2.buf,
                                  args |-> <<>>]
                            ELSE xmlCharEncOutFunc_retry(handler,
                                     [g2.buf EXCEPT !.content = @ \o Take(r2.out, r2.outlen)],
                                     xmlBufferShrink(in1, u.len), tot1 + r2.outlen,
                                     env, Called(n3))
                    IN  Finish(xmlEncOutputChunk(handler,
                                   g2.buf.size - Len(g2.buf.content) - 1,
                                   charref, FALSE, Oracle(env, n3)))
                Grow(charref, g2) == Encode(charref, g2, Grew(n2, g2))
            IN  IF u.cur <= 0
                THEN [ret |-> ret, in |-> in1, out |-> out1, args |-> <<>>]
                ELSE Grow(CharRef(u.cur),
                          xmlBufferGrow(out1, Len(CharRef(u.cur)) * 4, Fails(env, n2)))
        (* lines 2602-2644 *)
        Converted(g, n1, r) ==
            LET After(in1, out1, tot1) ==
                    IF r.ret = XML_ENC_ERR_SPACE
                    THEN xmlCharEncOutFunc_retry(handler, out1, in1, tot1, env, Called(n1))
                    ELSE IF r.ret = XML_ENC_ERR_INPUT
                    THEN Escape(in1, out1, tot1, Called(n1), r.ret,
                                xmlGetUTF8Char(in1.content, Len(in1.content)))
                    ELSE [ret |-> IF tot1 # 0 THEN tot1 ELSE r.ret,
                          in |-> in1, out |-> out1, args |-> <<>>]
            IN  After(xmlBufferShrink(in, r.inlen),
                      [g.buf EXCEPT !.content = @ \o Take(r.out, r.outlen)],
                      writtentot + r.outlen)
        (* lines 2596-2601 *)
        Grown(need, g, n1) ==
            Passed(toconv, toconv, IF need THEN g.buf.size - use - 1 ELSE written0,
                Converted(g, n1,
                    xmlEncOutputChunk(handler,
                        IF need THEN g.buf.size - use - 1 ELSE written0,
                        in.content, FALSE, Oracle(env, n1))))
        Start(need, g) == Grown(need, g, Grew(n, g))
    IN  Start(toconv * 4 >= written0,
              IF toconv * 4 >= written0
              THEN xmlBufferGrow(out, toconv * 4, Fails(env, n))
              ELSE [ret |-> 0, buf |-> out, realloc |-> FALSE])

(***************************************************************************)
(* xmlCharEncOutFunc.  in == NULL is the initialization call: the handler  *)
(* is called once, its return value is not looked at, and 0 is returned.   *)
(***************************************************************************)
xmlCharEncOutFunc(handler, out, in, inIsNull, env) ==
    IF inIsNull
    THEN LET use == Len(out.content)
             Return(r) ==
                 [ret |-> 0, in |-> in,
                  out |-> [out EXCEPT !.content = @ \o Take(r.out, r.outlen)],
                  args |-> <<>>]
         IN  Return(xmlEncOutputChunk(handler,
                        IF out.size - use > 0 THEN out.size - use - 1 ELSE 0,
                        <<>>, TRUE, Oracle(env, [grows |-> 0, calls |-> 0])))
    ELSE xmlCharEncOutFunc_retry(handler, out, in, 0, env, [grows |-> 0, calls |-> 0])

(***************************************************************************)
(* The registries before any call, and the builds looked at.               *)
(***************************************************************************)
PlainBuild == [iconv |-> FALSE, icu |-> FALSE, iso8859x |-> FALSE, html |-> FALSE]

RegInit ==
    /\ xmlCharEncodingAliases = [null |-> TRUE, tab |-> <<>>]
    /\ xmlCharEncodingAliasesNb = 0
    /\ xmlCharEncodingAliasesMax = 0
    /\ handlers = [null |-> TRUE, tab |-> <<>>]
    /\ nbCharEncodingHandler = 0
    /\ heap = <<>>
    /\ aliasMap = <<>>

ConvIdle ==
    /\ encoder = NullHandler
    /\ src = <<>>
    /\ inBuf = NewBuf(<<>>, 1)
    /\ outBuf = NewBuf(<<>>, 1)
    /\ error = 0

(***************************************************************************)
(* Well-formed UTF-8 text: the UTF-8 form of sequences of code points.     *)
(***************************************************************************)
Utf8(cp) ==
    IF cp < 128 THEN <<cp>>
    ELSE IF cp < 2048 THEN <<192 + (cp \div 64), 128 + (cp % 64)>>
    ELSE IF cp < 65536
    THEN <<224 + (cp \div 4096), 128 + ((cp \div 64) % 64), 128 + (cp % 64)>>
    ELSE <<240 + (cp \div 262144), 128 + ((cp \div 4096) % 64),
           128 + ((cp \div 64) % 64), 128 + (cp % 64)>>

RECURSIVE Utf8Text(_)
Utf8Text(cps) ==
    IF cps = <<>> THEN <<>> ELSE Utf8(Head(cps)) \o Utf8Text(Tail(cps))

SeqsUpTo(S, n) == UNION {[1..k -> S] : k \in 0..n}

EscCodePoints == {65, 66, 233, 8364, 128512}

EscEncoders == {DefaultRef(i) : i \in 1..5}

EscOutSizes == {3, 4001}

(***************************************************************************)
(* Encoding one text through xmlCharEncOutput or xmlCharEncOutFunc: the    *)
(* stream is created with an encoder and the text in its buffer, the       *)
(* initialization call may come first, then the conversion calls.          *)
(***************************************************************************)
InitEsc ==
    /\ xmlLittleEndian \in BOOLEAN
    /\ build = PlainBuild
    /\ RegInit
    /\ encoder \in EscEncoders
    /\ src \in {Utf8Text(cps) : cps \in SeqsUpTo(EscCodePoints, MaxCps)}
    /\ inBuf = NewBuf(src, Len(src) + 1)
    /\ outBuf \in {NewBuf(<<>>, sz) : sz \in EscOutSizes}
    /\ error = 0
    /\ call = [op |-> "none"]

EscOutputInit ==
    /\ call.op = "none"
    /\ \E r \in {xmlCharEncOutput(Deref(encoder), inBuf, outBuf, error, TRUE, NoEnv)} :
           /\ inBuf' = r.in
           /\ outBuf' = r.out
           /\ error' = r.error
           /\ call' = [op |-> "xmlCharEncOutput", init |-> TRUE, ret |-> r.ret,
                       failAt |-> 0, input |-> inBuf.content, before |-> outBuf.content,
                       args |-> r.args]
    /\ UNCHANGED <<xmlLittleEndian, build, regVars, encoder, src>>

EscOutput ==
    /\ call.op \in {"none", "xmlCharEncOutput"}
    /\ \E failAt \in 0..2 :
         \E r \in {xmlCharEncOutput(Deref(encoder), inBuf, outBuf, error, FALSE,
                                     [NoEnv EXCEPT !.failAt = failAt])} :
             /\ inBuf' = r.in
             /\ outBuf' = r.out
             /\ error' = r.error
             /\ call' = [op |-> "xmlCharEncOutput", init |-> FALSE, ret |-> r.ret,
                         failAt |-> failAt, input |-> inBuf.content,
                         before |-> outBuf.content, args |-> r.args]
    /\ UNCHANGED <<xmlLittleEndian, build, regVars, encoder, src>>

EscOutFuncInit ==
    /\ call.op = "none"
    /\ \E r \in {xmlCharEncOutFunc(Deref(encoder), outBuf, inBuf, TRUE, NoEnv)} :
           /\ inBuf' = r.in
           /\ outBuf' = r.out
           /\ call' = [op |-> "xmlCharEncOutFunc", init |-> TRUE, ret |-> r.ret,
                       failAt |-> 0, input |-> inBuf.content, before |-> outBuf.content,
                       args |-> r.args]
    /\ UNCHANGED <<xmlLittleEndian, build, regVars, encoder, src, error>>

EscOutFunc ==
    /\ call.op \in {"none", "xmlCharEncOutFunc"}
    /\ \E failAt \in 0..2 :
         \E r \in {xmlCharEncOutFunc(Deref(encoder), outBuf, inBuf, FALSE,
                                      [NoEnv EXCEPT !.failAt = failAt])} :
             /\ inBuf' = r.in
             /\ outBuf' = r.out
             /\ call' = [op |-> "xmlCharEncOutFunc", init |-> FALSE, ret |-> r.ret,
                         failAt |-> failAt, input |-> inBuf.content,
                         before |-> outBuf.content, args |-> r.args]
    /\ UNCHANGED <<xmlLittleEndian, build, regVars, encoder, src, error>>

NextEsc == EscOutputInit \/ EscOutput \/ EscOutFuncInit \/ EscOutFunc

SpecEsc == InitEsc /\ [][NextEsc]_vars

(***************************************************************************)
(* What the escape fallback is expected to produce, stated on the code     *)
(* points of the text and independently of the converters.                 *)
(***************************************************************************)
RECURSIVE CodePointsOf(_)
CodePointsOf(bytes) ==
    IF bytes = <<>> THEN <<>>
    ELSE LET c == bytes[1]
             k == IF c < 128 THEN 1 ELSE IF c < 224 THEN 2 ELSE IF c < 240 THEN 3 ELSE 4
             cp == CASE k = 1 -> c
                     [] k = 2 -> (c - 192) * 64 + (bytes[2] - 128)
                     [] k = 3 -> (c - 224) * 4096 + (bytes[2] - 128) * 64 + (bytes[3] - 128)
                     [] k = 4 -> (c - 240) * 262144 + (bytes[2] - 128) * 4096
                                 + (bytes[3] - 128) * 64 + (bytes[4] - 128)
         IN  <<cp>> \o CodePointsOf(Drop(bytes, k))

Utf16Units(cp) ==
    IF cp < 65536 THEN <<cp>>
    ELSE <<55296 + ((cp - 65536) \div 1024), 56320 + ((cp - 65536) % 1024)>>

RECURSIVE UnitBytes(_, _)
UnitBytes(units, le) ==
    IF units = <<>> THEN <<>>
    ELSE (IF le THEN <<Head(units) % 256, Head(units) \div 256>>
          ELSE <<Head(units) \div 256, Head(units) % 256>>)
         \o UnitBytes(Tail(units), le)

DecimalText(n) ==
    LET digits == <<n \div 100000, (n \div 10000) % 10, (n \div 1000) % 10,
                    (n \div 100) % 10, (n \div 10) % 10, n % 10>>
        first == CHOOSE i \in 1..6 : digits[i] # 0 /\ \A j \in 1..(i - 1) : digits[j] = 0
    IN  [i \in 1..(7 - first) |-> 48 + digits[first + i - 1]]

Representable(name, cp) ==
    CASE name \in {N_ASCII, N_US_ASCII} -> cp < 128
      [] name = N_ISO_8859_1 -> cp < 256
      [] OTHER -> TRUE

EncodedAs(name, cp) ==
    CASE name \in {N_ASCII, N_US_ASCII, N_ISO_8859_1} -> <<cp>>
      [] name = N_UTF_16BE -> UnitBytes(Utf16Units(cp), FALSE)
      [] OTHER -> UnitBytes(Utf16Units(cp), TRUE)

RECURSIVE EscapedText(_, _)
EscapedText(name, cps) ==
    IF cps = <<>> THEN <<>>
    ELSE (IF Representable(name, Head(cps)) THEN EncodedAs(name, Head(cps))
          ELSE <<38, 35>> \o DecimalText(Head(cps)) \o <<59>>)
         \o EscapedText(name, Tail(cps))

EscCall ==
    /\ call.op \in {"xmlCharEncOutput", "xmlCharEncOutFunc"}
    /\ ~call.init
    /\ call.failAt = 0
    /\ ~outBuf.error

EscOutcome ==
    \E want \in {EscapedText(Deref(encoder).name, CodePointsOf(call.input))} :
        /\ outBuf.content = call.before \o want
        /\ inBuf.content = <<>>
        /\ call.ret = Len(want)

ChunkBytes == {65, 66, 67}

ChunkCapacities == {4, 16}

InitChunk ==
    /\ xmlLittleEndian \in BOOLEAN
    /\ build = PlainBuild
    /\ RegInit
    /\ encoder = xmlAsciiHandler
    /\ src \in SeqsUpTo(ChunkBytes, MaxSrc)
    /\ inBuf = NewBuf(src, Len(src) + 1)
    /\ outBuf = NewBuf(<<>>, 1)
    /\ error = 0
    /\ \E capacity \in ChunkCapacities, dir \in {"decode", "encode"} :
         call = [op |-> "none", capacity |-> capacity, dir |-> dir]

(***************************************************************************)
(* What the iconv or ICU library may do when a backend handler is called   *)
(* with the bytes in and room for capacity bytes: convert all of in when   *)
(* it fits, or stop after k bytes with one of its errors.  A built-in      *)
(* handler, and a handler with no converter at all, call no library.       *)
(***************************************************************************)
ChunkSteps(h, in, capacity) ==
    LET Stops(errs) ==
            {[out |-> Take(in, k), consumed |-> k, err |-> e] :
                k \in {j \in 0 .. Len(in) - 1 : j <= capacity}, e \in errs}
            \cup (IF Len(in) <= capacity
                  THEN {[out |-> in, consumed |-> Len(in), err |-> "none"]}
                  ELSE {})
    IN  IF h.input # NULL \/ h.output # NULL
        THEN {Oracle(NoEnv, [grows |-> 0, calls |-> 0])}
        ELSE IF h.iconv_in # NULL THEN Stops({"EILSEQ", "E2BIG", "EINVAL", "EBADF"})
        ELSE IF h.uconv_in # NULL
        THEN Stops({"U_BUFFER_OVERFLOW_ERROR", "U_INVALID_CHAR_FOUND",
                    "U_TRUNCATED_CHAR_FOUND"})
        ELSE {Oracle(NoEnv, [grows |-> 0, calls |-> 0])}

ChunkDone(op, x, r) ==
    /\ inBuf' = [inBuf EXCEPT !.content = Drop(@, r.inlen)]
    /\ outBuf' = [outBuf EXCEPT !.content = @ \o Take(r.out, r.outlen)]
    /\ call' = [op |-> op, capacity |-> call.capacity, dir |-> call.dir,
                ret |-> r.ret, consumed |-> r.inlen, produced |-> r.outlen,
                remaining |-> Len(inBuf.content), backend |-> x.err]
    /\ UNCHANGED <<xmlLittleEndian, build, regVars, encoder, src, error>>

ChunkInput ==
    /\ call.dir = "decode"
    /\ inBuf.content # <<>>
    /\ \E x \in ChunkSteps(Deref(encoder), inBuf.content, call.capacity) :
           ChunkDone("xmlEncInputChunk", x,
                     xmlEncInputChunk(Deref(encoder), call.capacity, inBuf.content, x))

ChunkOutput ==
    /\ call.dir = "encode"
    /\ inBuf.content # <<>>
    /\ \E x \in ChunkSteps(Deref(encoder), inBuf.content, call.capacity) :
           ChunkDone("xmlEncOutputChunk", x,
                     xmlEncOutputChunk(Deref(encoder), call.capacity, inBuf.content,
                                       FALSE, x))

NextChunk == ChunkInput \/ ChunkOutput

SpecChunk == InitChunk /\ [][NextChunk]_vars

ChunkCall == call.op \in {"xmlEncInputChunk", "xmlEncOutputChunk"} /\ call.capacity = 4

(* C2: with a destination of capacity 4, every chunk call consumes        *)
(* exactly 4 bytes of the ASCII source (the whole remainder when fewer    *)
(* than 4 are left), and what the calls produced so far is the consumed   *)
(* part of the source, no byte duplicated or dropped.                     *)
C2_AsStated ==
    ChunkCall =>
        /\ call.consumed = Min(4, call.remaining)
        /\ src = outBuf.content \o inBuf.content

(***************************************************************************)
(* Decoding valid UTF-16LE text with UTF16LEToUTF8 and encoding the        *)
(* result with UTF8ToUTF16LE.  inBuf holds the UTF-8 text in between,      *)
(* outBuf the UTF-16LE text that comes back.  Each call gets either a      *)
(* capacity no output can exceed or the input's length.                    *)
(***************************************************************************)
U16CodePoints == {65, 233, 8364, 65279, 65536, 1114111}

RECURSIVE Utf16LEText(_)
Utf16LEText(cps) ==
    IF cps = <<>> THEN <<>>
    ELSE UnitBytes(Utf16Units(Head(cps)), TRUE) \o Utf16LEText(Tail(cps))

RECURSIVE CodePointsOfUtf16(_)
CodePointsOfUtf16(bytes) ==
    IF bytes = <<>> THEN <<>>
    ELSE IF bytes[2] \div 4 = 54
    THEN <<65536 + (bytes[1] + 256 * (bytes[2] - 216)) * 1024
                 + bytes[3] + 256 * (bytes[4] - 220)>>
         \o CodePointsOfUtf16(Drop(bytes, 4))
    ELSE <<bytes[1] + 256 * bytes[2]>> \o CodePointsOfUtf16(Drop(bytes, 2))

InitUTF16 ==
    /\ xmlLittleEndian \in BOOLEAN
    /\ build = PlainBuild
    /\ RegInit
    /\ encoder = xmlUTF16LEHandler
    /\ src \in {Utf16LEText(cps) : cps \in SeqsUpTo(U16CodePoints, MaxU16)}
    /\ inBuf = NewBuf(<<>>, 1)
    /\ outBuf = NewBuf(<<>>, 1)
    /\ error = 0
    /\ call = [op |-> "none"]

U16Decode ==
    /\ call.op = "none"
    /\ \E outlen \in {2 * Len(src) + 6, Len(src)} :
         \E r \in {CallInput(Deref(encoder).input, outlen, src)} :
             /\ inBuf' = NewBuf(Take(r.out, r.outlen), outlen + 1)
             /\ call' = [op |-> "UTF16LEToUTF8", ret |-> r.ret, outlen |-> outlen,
                         consumed |-> r.inlen, sufficient |-> outlen = 2 * Len(src) + 6]
    /\ UNCHANGED <<xmlLittleEndian, build, regVars, encoder, src, outBuf, error>>

U16Encode ==
    /\ call.op = "UTF16LEToUTF8"
    /\ \E outlen \in {2 * Len(inBuf.content), Len(inBuf.content)} :
         \E r \in {CallOutput(Deref(encoder).output, outlen, inBuf.content, FALSE)} :
             /\ outBuf' = NewBuf(Take(r.out, r.outlen), outlen + 1)
             /\ call' = [op |-> "UTF8ToUTF16LE", ret |-> r.ret, outlen |-> outlen,
                         consumed |-> r.inlen,
                         sufficient |-> call.sufficient /\ outlen = 2 * Len(inBuf.content)]
    /\ UNCHANGED <<xmlLittleEndian, build, regVars, encoder, src, inBuf, error>>

NextUTF16 == U16Decode \/ U16Encode

SpecUTF16 == InitUTF16 /\ [][NextUTF16]_vars

(* C3: for valid UTF-16LE bytes b, surrogate pairs included, decoding b   *)
(* with UTF16LEToUTF8 and encoding the result with UTF8ToUTF16LE, each    *)
(* with sufficient output capacity, gives back exactly b, and each step   *)
(* reports all of its input as consumed.                                  *)
C3_RoundTrip ==
    /\ (call.op = "UTF16LEToUTF8" /\ call.sufficient) =>
           /\ call.ret >= 0
           /\ call.consumed = Len(src)
           /\ inBuf.content = Utf8Text(CodePointsOfUtf16(src))
    /\ (call.op = "UTF8ToUTF16LE" /\ call.sufficient) =>
           /\ call.ret >= 0
           /\ call.consumed = Len(inBuf.content)
           /\ outBuf.content = src

C3_Witness ==
    /\ call.op = "UTF8ToUTF16LE"
    /\ call.sufficient
    /\ src = <<65, 0, 0, 216, 0, 220, 172, 32>>
    /\ inBuf.content = <<65, 240, 144, 128, 128, 226, 130, 172>>
    /\ outBuf.content = src
    /\ call.consumed = 8

(***************************************************************************)
(* Strings are sequences of characters; a char pointer is a string or      *)
(* NULL.                                                                   *)
(***************************************************************************)
NullStr == [null |-> TRUE, s |-> <<>>]

Str(s) == [null |-> FALSE, s |-> s]

LowerCase == <<"a", "b", "c", "d", "e", "f", "g", "h", "i", "j", "k", "l", "m",
               "n", "o", "p", "q", "r", "s", "t", "u", "v", "w", "x", "y", "z">>

UpperCase == <<"A", "B", "C", "D", "E", "F", "G", "H", "I", "J", "K", "L", "M",
               "N", "O", "P", "Q", "R", "S", "T", "U", "V", "W", "X", "Y", "Z">>

ToUpper == [c \in {LowerCase[i] : i \in 1..26} |->
               UpperCase[CHOOSE i \in 1..26 : LowerCase[i] = c]]

toupper(c) == IF c \in DOMAIN ToUpper THEN ToUpper[c] ELSE c

(***************************************************************************)
(* for (i = 0; i < max; i++) { upper[i] = toupper(name[i]);                *)
(*     if (upper[i] == 0) break; }  upper[i] = 0;                          *)
(***************************************************************************)
UpperCopy(name, max) == [i \in 1..Min(Len(name), max) |-> toupper(name[i])]

(***************************************************************************)
(* xmlGetEncodingAlias: tab is the table, alias the string looked up.      *)
(***************************************************************************)
AliasIndex(tab, upper) ==
    IF \E i \in 1..Len(tab) : tab[i].alias = upper
    THEN CHOOSE i \in 1..Len(tab) : tab[i].alias = upper /\ \A j \in 1..(i - 1) : tab[j].alias # upper
    ELSE 0

xmlGetEncodingAlias(aliases, alias) ==
    IF aliases.null THEN NullStr
    ELSE IF AliasIndex(aliases.tab, UpperCopy(alias, 99)) = 0 THEN NullStr
    ELSE Str(aliases.tab[AliasIndex(aliases.tab, UpperCopy(alias, 99))].name)

(***************************************************************************)
(* xmlAddEncodingAlias.  fail names the allocation that fails, if any:     *)
(* "realloc" (the table), "name" (the copy of name), "alias" (the copy of  *)
(* the uppercased alias).  The result is the return value and the values   *)
(* of the three alias variables.                                           *)
(***************************************************************************)
AliasState(ret, aliases, nb, max) ==
    [ret |-> ret, aliases |-> aliases, nb |-> nb, max |-> max]

(***************************************************************************)
(* xmlAddEncodingAlias without the reallocation of a full table.           *)
(***************************************************************************)
xmlAddEncodingAlias_NoGrow(aliases, nb, max, name, alias, fail) ==
    LET upper == UpperCopy(alias, 99)
        i == AliasIndex(aliases.tab, upper)
    IN  IF i > 0
        THEN AliasState(0, [null |-> FALSE, tab |-> [aliases.tab EXCEPT ![i].name = name]],
                        nb, max)
        ELSE AliasState(0, [null |-> FALSE,
                            tab |-> Append(aliases.tab, [name |-> name, alias |-> upper])],
                        nb + 1, max)

xmlAddEncodingAlias(aliases, nb, max, name, alias, fail) ==
    LET Store(upper, tab, newMax, i) ==
            IF i > 0
            THEN IF fail = "name"
                 THEN AliasState(-1, [null |-> FALSE, tab |-> tab], nb, newMax)
                 ELSE AliasState(0, [null |-> FALSE, tab |-> [tab EXCEPT ![i].name = name]],
                                 nb, newMax)
            ELSE IF fail \in {"name", "alias"}
            THEN AliasState(-1, [null |-> FALSE, tab |-> tab], nb, newMax)
            ELSE AliasState(0, [null |-> FALSE,
                                tab |-> Append(tab, [name |-> name, alias |-> upper])],
                            nb + 1, newMax)
        Walk(upper, newMax) == Store(upper, aliases.tab, newMax, AliasIndex(aliases.tab, upper))
    IN  IF nb >= max
        THEN IF fail = "realloc" THEN AliasState(-1, aliases, nb, max)
             ELSE Walk(UpperCopy(alias, 99), IF max # 0 THEN max * 2 ELSE 20)
        ELSE Walk(UpperCopy(alias, 99), max)

(***************************************************************************)
(* xmlDelEncodingAlias with the alias uppercased and cut as in             *)
(* xmlGetEncodingAlias before it is compared.                              *)
(***************************************************************************)
xmlDelEncodingAlias_Upper(aliases, nb, max, alias) ==
    LET Remove(i) ==
            IF i = 0 THEN AliasState(-1, aliases, nb, max)
            ELSE AliasState(0, [aliases EXCEPT !.tab = SubSeq(@, 1, i - 1)
                                                      \o SubSeq(@, i + 1, Len(@))],
                            nb - 1, max)
    IN  IF aliases.null THEN AliasState(-1, aliases, nb, max)
        ELSE Remove(AliasIndex(aliases.tab, UpperCopy(alias, 99)))

(***************************************************************************)
(* xmlDelEncodingAlias: the alias is compared as given.                    *)
(***************************************************************************)
xmlDelEncodingAlias(aliases, nb, max, alias) ==
    LET Remove(i) ==
            IF i = 0 THEN AliasState(-1, aliases, nb, max)
            ELSE AliasState(0, [aliases EXCEPT !.tab = SubSeq(@, 1, i - 1)
                                                      \o SubSeq(@, i + 1, Len(@))],
                            nb - 1, max)
    IN  IF aliases.null THEN AliasState(-1, aliases, nb, max)
        ELSE Remove(AliasIndex(aliases.tab, alias))

(***************************************************************************)
(* xmlCleanupEncodingAliases                                               *)
(***************************************************************************)
xmlCleanupEncodingAliases(aliases, nb, max) ==
    IF aliases.null THEN AliasState(0, aliases, nb, max)
    ELSE AliasState(0, [null |-> TRUE, tab |-> <<>>], 0, 0)

(***************************************************************************)
(* The alias registry under any sequence of add, remove, lookup and clear  *)
(* calls.  aliasMap is the map the calls describe: an add that returns 0   *)
(* binds the uppercased alias to the name, a remove that is given a bound  *)
(* key unbinds it, clear unbinds everything.                               *)
(***************************************************************************)
LongAlias(last) == [i \in 1..100 |-> IF i = 100 THEN last ELSE "A"]

AliasNames == {<<"I", "S", "O", "-", "8", "8", "5", "9", "-", "1">>,
               <<"U", "T", "F", "-", "1", "6">>}

AliasSpellings == {<<"l", "a", "t", "i", "n", "1">>, <<"L", "A", "T", "I", "N", "1">>,
                   LongAlias("X"), LongAlias("Y")}

InitAlias ==
    /\ xmlLittleEndian \in BOOLEAN
    /\ build = PlainBuild
    /\ RegInit
    /\ ConvIdle
    /\ call = [op |-> "none"]

AliasSet(r) ==
    /\ xmlCharEncodingAliases' = r.aliases
    /\ xmlCharEncodingAliasesNb' = r.nb
    /\ xmlCharEncodingAliasesMax' = r.max
    /\ UNCHANGED <<xmlLittleEndian, build, handlers, nbCharEncodingHandler, heap, convVars>>

AliasAdd ==
    \E name \in AliasNames, alias \in AliasSpellings,
       fail \in {"none", "realloc", "name", "alias"} :
        \E r \in {xmlAddEncodingAlias(xmlCharEncodingAliases, xmlCharEncodingAliasesNb,
                                      xmlCharEncodingAliasesMax, name, alias, fail)} :
            /\ AliasSet(r)
            /\ aliasMap' = IF r.ret = 0
                           THEN [k \in DOMAIN aliasMap \cup {UpperCopy(alias, Len(alias))} |->
                                    IF k = UpperCopy(alias, Len(alias)) THEN name
                                    ELSE aliasMap[k]]
                           ELSE aliasMap
            /\ call' = [op |-> "xmlAddEncodingAlias", name |-> name, alias |-> alias,
                        ret |-> r.ret]

AliasDel ==
    \E alias \in AliasSpellings :
        \E r \in {xmlDelEncodingAlias(xmlCharEncodingAliases, xmlCharEncodingAliasesNb,
                                      xmlCharEncodingAliasesMax, alias)} :
            /\ AliasSet(r)
            /\ aliasMap' = [k \in DOMAIN aliasMap \ {alias} |-> aliasMap[k]]
            /\ call' = [op |-> "xmlDelEncodingAlias", alias |-> alias, ret |-> r.ret,
                        before |-> xmlCharEncodingAliases]

AliasCleanup ==
    /\ AliasSet(xmlCleanupEncodingAliases(xmlCharEncodingAliases, xmlCharEncodingAliasesNb,
                                          xmlCharEncodingAliasesMax))
    /\ aliasMap' = <<>>
    /\ call' = [op |-> "xmlCleanupEncodingAliases"]

AliasGet ==
    \E alias \in AliasSpellings :
        /\ call' = [op |-> "xmlGetEncodingAlias", alias |-> alias,
                    ret |-> xmlGetEncodingAlias(xmlCharEncodingAliases, alias)]
        /\ UNCHANGED <<xmlLittleEndian, build, regVars, convVars>>

NextAlias == AliasAdd \/ AliasDel \/ AliasCleanup \/ AliasGet

SpecAlias == InitAlias /\ [][NextAlias]_vars

(* C10: the alias registry is a map keyed by the uppercased alias: for   *)
(* every spelling a, xmlGetEncodingAlias(a) is the name most recently     *)
(* added for the uppercased a, and not-found if none was added or it was  *)
(* removed through its uppercased spelling or cleared.                    *)
C10_AsStated ==
    \A a \in AliasSpellings :
        xmlGetEncodingAlias(xmlCharEncodingAliases, a) =
            IF UpperCopy(a, Len(a)) \in DOMAIN aliasMap
            THEN Str(aliasMap[UpperCopy(a, Len(a))])
            ELSE NullStr

(* C11: xmlDelEncodingAlias(s) returns 0 only if s is byte-identical to  *)
(* a stored alias and then removes exactly that entry, the others keeping *)
(* their order; for any other s, a lowercase spelling of a stored alias   *)
(* included, it returns -1 and leaves the registry as it was, so that the *)
(* alias still resolves.                                                  *)
C11_ExactCaseRemoval ==
    call.op = "xmlDelEncodingAlias" =>
        IF \E i \in 1..Len(call.before.tab) : call.before.tab[i].alias = call.alias
        THEN /\ call.ret = 0
             /\ \E i \in 1..Len(call.before.tab) :
                    /\ call.before.tab[i].alias = call.alias
                    /\ xmlCharEncodingAliases.tab =
                           SubSeq(call.before.tab, 1, i - 1)
                           \o SubSeq(call.before.tab, i + 1, Len(call.before.tab))
             /\ xmlCharEncodingAliasesNb = Len(call.before.tab) - 1
             /\ \A j \in 1..Len(xmlCharEncodingAliases.tab) :
                    xmlCharEncodingAliases.tab[j].alias # call.alias
        ELSE /\ call.ret = -1
             /\ xmlCharEncodingAliases = call.before
             /\ xmlCharEncodingAliasesNb = Len(call.before.tab)
             /\ \A i \in 1..Len(call.before.tab) :
                    call.before.tab[i].alias = UpperCopy(call.alias, 99) =>
                        xmlGetEncodingAlias(xmlCharEncodingAliases, call.alias) =
                            Str(call.before.tab[i].name)

C11_Witness ==
    /\ call.op = "xmlDelEncodingAlias"
    /\ call.alias = <<"l", "a", "t", "i", "n", "1">>
    /\ call.ret = -1
    /\ Len(xmlCharEncodingAliases.tab) = 2
    /\ xmlGetEncodingAlias(xmlCharEncodingAliases, call.alias) # NullStr

(***************************************************************************)
(* The handler registry.  A heap cell holds a handler allocated with       *)
(* xmlMalloc: the handler, whether it is still allocated, and how often    *)
(* it was passed to xmlFree.  Addresses are not reused, so a pointer to a  *)
(* freed handler stays recognisable.                                       *)
(***************************************************************************)
MAX_ENCODING_HANDLERS == 50

RegState(tab, nb, mem) == [handlers |-> tab, nb |-> nb, heap |-> mem]

xmlFree(mem, handler) ==
    [mem EXCEPT ![handler.idx].live = FALSE, ![handler.idx].frees = @ + 1]

xmlMalloc(mem, h) == Append(mem, [h |-> h, live |-> TRUE, frees |-> 0])

TableFull_Never(nb) == FALSE

TableFull(nb) == nb >= MAX_ENCODING_HANDLERS

(***************************************************************************)
(* xmlRegisterCharEncodingHandler: failTable says whether the allocation   *)
(* of the table, if it is made, fails.                                     *)
(***************************************************************************)
xmlRegisterCharEncodingHandler(tab, nb, mem, handler, failTable) ==
    IF handler = NullHandler THEN RegState(tab, nb, mem)
    ELSE IF tab.null /\ failTable THEN RegState(tab, nb, xmlFree(mem, handler))
    ELSE IF TableFull(nb)
    THEN RegState([tab EXCEPT !.null = FALSE], nb, xmlFree(mem, handler))
    ELSE RegState([null |-> FALSE, tab |-> Append(tab.tab, handler)], nb + 1, mem)

(***************************************************************************)
(* xmlNewCharEncodingHandler: fail names the allocation that fails, if     *)
(* any: "up" (the copy of the name), "handler", "table".  ret is the       *)
(* pointer returned.                                                       *)
(***************************************************************************)
xmlNewCharEncodingHandler(aliases, tab, nb, mem, name, input, output, fail) ==
    LET Create(up) ==
            IF fail \in {"up", "handler"}
            THEN [ret |-> NullHandler, reg |-> RegState(tab, nb, mem)]
            ELSE [ret |-> HeapRef(Len(mem) + 1),
                  reg |-> xmlRegisterCharEncodingHandler(tab, nb,
                              xmlMalloc(mem, MAKE_HANDLER(up, input, output)),
                              HeapRef(Len(mem) + 1), fail = "table")]
        Resolve(alias) ==
            IF ~alias.null THEN Create(UpperCopy(alias.s, 499))
            ELSE IF name.null THEN [ret |-> NullHandler, reg |-> RegState(tab, nb, mem)]
            ELSE Create(UpperCopy(name.s, 499))
    IN  Resolve(IF name.null THEN NullStr ELSE xmlGetEncodingAlias(aliases, name.s))

(***************************************************************************)
(* xmlCleanupCharEncodingHandlers, after its xmlCleanupEncodingAliases     *)
(* call: the handlers, their table and the count.                          *)
(***************************************************************************)
RECURSIVE FreeAll(_, _)
FreeAll(mem, ptrs) ==
    IF ptrs = <<>> THEN mem
    ELSE FreeAll(IF ptrs[Len(ptrs)] # NullHandler THEN xmlFree(mem, ptrs[Len(ptrs)]) ELSE mem,
                 SubSeq(ptrs, 1, Len(ptrs) - 1))

xmlCleanupCharEncodingHandlers(tab, nb, mem) ==
    IF tab.null THEN RegState(tab, nb, mem)
    ELSE RegState([null |-> TRUE, tab |-> <<>>], 0, FreeAll(mem, tab.tab))

(***************************************************************************)
(* The handler registry under any sequence of xmlNewCharEncodingHandler,   *)
(* xmlRegisterCharEncodingHandler and xmlCleanupCharEncodingHandlers       *)
(* calls.  A caller of xmlRegisterCharEncodingHandler passes a handler it  *)
(* has just allocated, or NULL.  Allocation stops after MaxAllocs          *)
(* handlers.                                                               *)
(***************************************************************************)
RegName == <<"X", "-", "E", "N", "C">>

InitReg ==
    /\ xmlLittleEndian \in BOOLEAN
    /\ build = PlainBuild
    /\ RegInit
    /\ ConvIdle
    /\ call = [op |-> "none"]

RegSet(op, ret, r) ==
    /\ handlers' = r.handlers
    /\ nbCharEncodingHandler' = r.nb
    /\ heap' = r.heap
    /\ call' = [op |-> op, ret |-> ret, nbBefore |-> nbCharEncodingHandler,
                tabBefore |-> handlers]
    /\ UNCHANGED <<xmlLittleEndian, build, xmlCharEncodingAliases, xmlCharEncodingAliasesNb,
                   xmlCharEncodingAliasesMax, aliasMap, convVars>>

RegNew ==
    /\ Len(heap) < MaxAllocs
    /\ \E fail \in {"none", "up", "handler", "table"} :
         \E r \in {xmlNewCharEncodingHandler(xmlCharEncodingAliases, handlers,
                       nbCharEncodingHandler, heap, Str(RegName),
                       "asciiToUTF8", "UTF8Toascii", fail)} :
             RegSet("xmlNewCharEncodingHandler", r.ret, r.reg)

RegRegister ==
    /\ Len(heap) < MaxAllocs
    /\ \E failTable \in BOOLEAN :
         RegSet("xmlRegisterCharEncodingHandler", HeapRef(Len(heap) + 1),
                xmlRegisterCharEncodingHandler(handlers, nbCharEncodingHandler,
                    xmlMalloc(heap, MAKE_HANDLER(RegName, "asciiToUTF8", "UTF8Toascii")),
                    HeapRef(Len(heap) + 1), failTable))

RegRegisterNull ==
    RegSet("xmlRegisterCharEncodingHandler", NullHandler,
           xmlRegisterCharEncodingHandler(handlers, nbCharEncodingHandler, heap,
                                          NullHandler, FALSE))

RegCleanup ==
    \E a \in {xmlCleanupEncodingAliases(xmlCharEncodingAliases, xmlCharEncodingAliasesNb,
                                        xmlCharEncodingAliasesMax)},
       r \in {xmlCleanupCharEncodingHandlers(handlers, nbCharEncodingHandler, heap)} :
        /\ xmlCharEncodingAliases' = a.aliases
        /\ xmlCharEncodingAliasesNb' = a.nb
        /\ xmlCharEncodingAliasesMax' = a.max
        /\ aliasMap' = <<>>
        /\ handlers' = r.handlers
        /\ nbCharEncodingHandler' = r.nb
        /\ heap' = r.heap
        /\ call' = [op |-> "xmlCleanupCharEncodingHandlers", ret |-> NullHandler,
                    nbBefore |-> nbCharEncodingHandler, tabBefore |-> handlers]
        /\ UNCHANGED <<xmlLittleEndian, build, convVars>>

NextReg == RegNew \/ RegRegister \/ RegRegisterNull \/ RegCleanup

SpecReg == InitReg /\ [][NextReg]_vars

Live(handler) == handler.seg = "heap" => heap[handler.idx].live

(* C8: when the table holds its 50 handlers, xmlNewCharEncodingHandler    *)
(* returns NULL, the rejected handler is freed exactly once, and the      *)
(* caller is never handed a reference to a freed handler.                 *)
C8_AsStated ==
    (call.op = "xmlNewCharEncodingHandler" /\ call.nbBefore = MAX_ENCODING_HANDLERS) =>
        /\ call.ret = NullHandler
        /\ Live(call.ret)
        /\ \A i \in 1..Len(heap) : heap[i].frees <= 1

xmlStrcasecmp(str1, str2) ==
    IF UpperCopy(str1, Len(str1)) = UpperCopy(str2, Len(str2)) THEN 0 ELSE 1

N_UTF_8 == <<"U", "T", "F", "-", "8">>
N_UTF8 == <<"U", "T", "F", "8">>

FirstIndex(S) == IF S = {} THEN 0 ELSE CHOOSE i \in S : \A j \in S : i <= j

(***************************************************************************)
(* xmlParseCharEncoding: the strcmp chain as a table, first match wins.    *)
(***************************************************************************)
ParseTable ==
    <<
      <<<<"U", "T", "F", "-", "8">>, "XML_CHAR_ENCODING_UTF8">>,
      <<<<"U", "T", "F", "8">>, "XML_CHAR_ENCODING_UTF8">>,
      <<<<"U", "T", "F", "-", "1", "6">>, "XML_CHAR_ENCODING_UTF16LE">>,
      <<<<"U", "T", "F", "1", "6">>, "XML_CHAR_ENCODING_UTF16LE">>,
      <<<<"I", "S", "O", "-", "1", "0", "6", "4", "6", "-", "U", "C", "S", "-", "2">>, "XML_CHAR_ENCODING_UCS2">>,
      <<<<"U", "C", "S", "-", "2">>, "XML_CHAR_ENCODING_UCS2">>,
      <<<<"U", "C", "S", "2">>, "XML_CHAR_ENCODING_UCS2">>,
      <<<<"I", "S", "O", "-", "1", "0", "6", "4", "6", "-", "U", "C", "S", "-", "4">>, "XML_CHAR_ENCODING_UCS4LE">>,
      <<<<"U", "C", "S", "-", "4">>, "XML_CHAR_ENCODING_UCS4LE">>,
      <<<<"U", "C", "S", "4">>, "XML_CHAR_ENCODING_UCS4LE">>,
      <<<<"I", "S", "O", "-", "8", "8", "5", "9", "-", "1">>, "XML_CHAR_ENCODING_8859_1">>,
      <<<<"I", "S", "O", "-", "L", "A", "T", "I", "N", "-", "1">>, "XML_CHAR_ENCODING_8859_1">>,
      <<<<"I", "S", "O", " ", "L", "A", "T", "I", "N", " ", "1">>, "XML_CHAR_ENCODING_8859_1">>,
      <<<<"I", "S", "O", "-", "8", "8", "5", "9", "-", "2">>, "XML_CHAR_ENCODING_8859_2">>,
      <<<<"I", "S", "O", "-", "L", "A", "T", "I", "N", "-", "2">>, "XML_CHAR_ENCODING_8859_2">>,
      <<<<"I", "S", "O", " ", "L", "A", "T", "I", "N", " ", "2">>, "XML_CHAR_ENCODING_8859_2">>,
      <<<<"I", "S", "O", "-", "8", "8", "5", "9", "-", "3">>, "XML_CHAR_ENCODING_8859_3">>,
      <<<<"I", "S", "O", "-", "8", "8", "5", "9", "-", "4">>, "XML_CHAR_ENCODING_8859_4">>,
      <<<<"I", "S", "O", "-", "8", "8", "5", "9", "-", "5">>, "XML_CHAR_ENCODING_8859_5">>,
      <<<<"I", "S", "O", "-", "8", "8", "5", "9", "-", "6">>, "XML_CHAR_ENCODING_8859_6">>,
      <<<<"I", "S", "O", "-", "8", "8", "5", "9", "-", "7">>, "XML_CHAR_ENCODING_8859_7">>,
      <<<<"I", "S", "O", "-", "8", "8", "5", "9", "-", "8">>, "XML_CHAR_ENCODING_8859_8">>,
      <<<<"I", "S", "O", "-", "8", "8", "5", "9", "-", "9">>, "XML_CHAR_ENCODING_8859_9">>,
      <<<<"I", "S", "O", "-", "2", "0", "2", "2", "-", "J", "P">>, "XML_CHAR_ENCODING_2022_JP">>,
      <<<<"S", "H", "I", "F", "T", "_", "J", "I", "S">>, "XML_CHAR_ENCODING_SHIFT_JIS">>,
      <<<<"E", "U", "C", "-", "J", "P">>, "XML_CHAR_ENCODING_EUC_JP">>>>

xmlParseCharEncoding(aliases, name) ==
    LET Lookup(upper, i) ==
            IF upper = <<>> THEN "XML_CHAR_ENCODING_NONE"
            ELSE IF i = 0 THEN "XML_CHAR_ENCODING_ERROR"
            ELSE ParseTable[i][2]
        Parse(upper) ==
            Lookup(upper, FirstIndex({i \in 1..Len(ParseTable) : ParseTable[i][1] = upper}))
        Resolve(alias) ==
            Parse(UpperCopy(IF alias.null THEN name.s ELSE alias.s, 499))
    IN  IF name.null THEN "XML_CHAR_ENCODING_NONE"
        ELSE Resolve(xmlGetEncodingAlias(aliases, name.s))

(***************************************************************************)
(* The names xmlLookupCharEncodingHandler tries for an encoding: name, or  *)
(* the entries of names (ebcdicNames, ucs4Names, ucs2Names,                *)
(* shiftJisNames).                                                         *)
(***************************************************************************)
LookupNames(enc) ==
    CASE enc = "XML_CHAR_ENCODING_EBCDIC" ->
            <<<<"E", "B", "C", "D", "I", "C">>, <<"e", "b", "c", "d", "i", "c">>, <<"E", "B", "C", "D", "I", "C", "-", "U", "S">>, <<"I", "B", "M", "-", "0", "3", "7">>>>
      [] enc \in {"XML_CHAR_ENCODING_UCS4BE", "XML_CHAR_ENCODING_UCS4LE"} ->
            <<<<"I", "S", "O", "-", "1", "0", "6", "4", "6", "-", "U", "C", "S", "-", "4">>, <<"U", "C", "S", "-", "4">>, <<"U", "C", "S", "4">>>>
      [] enc = "XML_CHAR_ENCODING_UCS2" ->
            <<<<"I", "S", "O", "-", "1", "0", "6", "4", "6", "-", "U", "C", "S", "-", "2">>, <<"U", "C", "S", "-", "2">>, <<"U", "C", "S", "2">>>>
      [] enc = "XML_CHAR_ENCODING_SHIFT_JIS" ->
            <<<<"S", "H", "I", "F", "T", "-", "J", "I", "S">>, <<"S", "H", "I", "F", "T", "_", "J", "I", "S">>, <<"S", "h", "i", "f", "t", "_", "J", "I", "S">>>>
      [] OTHER -> <<>>

LookupName(enc) ==
    CASE enc = "XML_CHAR_ENCODING_8859_2" -> Str(N_ISO_8859 \o <<"2">>)
      [] enc = "XML_CHAR_ENCODING_8859_3" -> Str(N_ISO_8859 \o <<"3">>)
      [] enc = "XML_CHAR_ENCODING_8859_4" -> Str(N_ISO_8859 \o <<"4">>)
      [] enc = "XML_CHAR_ENCODING_8859_5" -> Str(N_ISO_8859 \o <<"5">>)
      [] enc = "XML_CHAR_ENCODING_8859_6" -> Str(N_ISO_8859 \o <<"6">>)
      [] enc = "XML_CHAR_ENCODING_8859_7" -> Str(N_ISO_8859 \o <<"7">>)
      [] enc = "XML_CHAR_ENCODING_8859_8" -> Str(N_ISO_8859 \o <<"8">>)
      [] enc = "XML_CHAR_ENCODING_8859_9" -> Str(N_ISO_8859 \o <<"9">>)
      [] enc = "XML_CHAR_ENCODING_2022_JP" -> Str(<<"I", "S", "O", "-", "2", "0", "2", "2", "-", "J", "P">>)
      [] enc = "XML_CHAR_ENCODING_EUC_JP" -> Str(<<"E", "U", "C", "-", "J", "P">>)
      [] OTHER -> NullStr

(***************************************************************************)
(* What a resolution returns: the error code, *out, the heap and the       *)
(* backend openings made so far, each with the name passed and the code    *)
(* returned.                                                               *)
(***************************************************************************)
Found(ret, out, mem, opened) == [ret |-> ret, out |-> out, heap |-> mem, opened |-> opened]

Opened(backend, name, ret) == [backend |-> backend, name |-> name, ret |-> ret]

(***************************************************************************)
(* The backends.  env says what the libraries and the allocator do during  *)
(* one call: env.iconv is "ok" or the errno of a failing iconv_open,       *)
(* env.icu is "ok", "malloc" or the UErrorCode of a failing converter      *)
(* opening, env.alloc is "none" or the allocation of the handler that      *)
(* fails ("enc", "name").  A library that works knows the encodings of     *)
(* BackendKnown, whatever the case of the name.  In a build without        *)
(* backend nothing of env is looked at.                                    *)
(***************************************************************************)
BackendKnown == {N_ISO_8859_2, <<"I", "B", "M", "-", "0", "3", "7">>}

iconv_open(env, name) ==
    IF env.iconv # "ok" THEN env.iconv
    ELSE IF UpperCopy(name, Len(name)) \in BackendKnown THEN "ok"
    ELSE "EINVAL"

(***************************************************************************)
(* xmlCreateIconvHandler.  A handler freed before the function returns     *)
(* leaves the heap as it was.                                              *)
(***************************************************************************)
xmlCreateIconvHandler(mem, name, env) ==
    LET Fail(ret) == [ret |-> ret, out |-> NullHandler, heap |-> mem]
        Open(icv) ==
            IF icv = "EINVAL" THEN Fail(XML_ERR_UNSUPPORTED_ENCODING)
            ELSE IF icv = "ENOMEM" THEN Fail(XML_ERR_NO_MEMORY)
            ELSE IF icv # "ok" THEN Fail(XML_ERR_SYSTEM)
            ELSE IF env.alloc \in {"enc", "name"} THEN Fail(XML_ERR_NO_MEMORY)
            ELSE [ret |-> 0, out |-> HeapRef(Len(mem) + 1),
                  heap |-> xmlMalloc(mem, [MAKE_HANDLER(name, NULL, NULL) EXCEPT
                                              !.iconv_in = "icv_in",
                                              !.iconv_out = "icv_out"])]
    IN  Open(iconv_open(env, name))

openIcuConverter(env, name) ==
    IF env.icu = "malloc" THEN XML_ERR_NO_MEMORY
    ELSE IF env.icu = "U_FILE_ACCESS_ERROR" THEN XML_ERR_UNSUPPORTED_ENCODING
    ELSE IF env.icu = "U_MEMORY_ALLOCATION_ERROR" THEN XML_ERR_NO_MEMORY
    ELSE IF env.icu # "ok" THEN XML_ERR_SYSTEM
    ELSE IF UpperCopy(name, Len(name)) \in BackendKnown THEN 0
    ELSE XML_ERR_UNSUPPORTED_ENCODING

xmlCreateUconvHandler(mem, name, env) ==
    LET Fail(ret) == [ret |-> ret, out |-> NullHandler, heap |-> mem]
        Open(ret) ==
            IF ret # 0 THEN Fail(ret)
            ELSE IF env.alloc \in {"enc", "name"} THEN Fail(XML_ERR_NO_MEMORY)
            ELSE [ret |-> 0, out |-> HeapRef(Len(mem) + 1),
                  heap |-> xmlMalloc(mem, [MAKE_HANDLER(name, NULL, NULL) EXCEPT
                                              !.uconv_in = "ucv_in",
                                              !.uconv_out = "ucv_out"])]
    IN  Open(openIcuConverter(env, name))

(***************************************************************************)
(* The test both scans make of a handler: the name, then the function of   *)
(* the direction asked for.                                                *)
(***************************************************************************)
NameMatch(handler, name, output) ==
    /\ xmlStrcasecmp(name, handler.name) = 0
    /\ IF output # 0 THEN handler.output # NULL ELSE handler.input # NULL

(***************************************************************************)
(* xmlFindExtraHandler                                                     *)
(***************************************************************************)
xmlFindExtraHandler_FallThrough(tab, nb, mem, name, output, env, opened) ==
    LET Uconv(r, tr) ==
            IF r.out # NullHandler
            THEN Found(0, r.out, r.heap, Append(tr, Opened("icu", name, r.ret)))
            ELSE Found(r.ret, NullHandler, r.heap, Append(tr, Opened("icu", name, r.ret)))
        Icu(tr) ==
            IF build.icu THEN Uconv(xmlCreateUconvHandler(mem, name, env), tr)
            ELSE Found(XML_ERR_UNSUPPORTED_ENCODING, NullHandler, mem, tr)
        Iconv(r, tr) ==
            IF r.out # NullHandler
            THEN Found(0, r.out, r.heap, Append(tr, Opened("iconv", name, r.ret)))
            ELSE Icu(Append(tr, Opened("iconv", name, r.ret)))
        Scan(i) ==
            IF i # 0 THEN Found(0, tab.tab[i], mem, opened)
            ELSE IF build.iconv THEN Iconv(xmlCreateIconvHandler(mem, name, env), opened)
            ELSE Icu(opened)
    IN  IF tab.null THEN Scan(0)
        ELSE Scan(FirstIndex({i \in 1..nb : NameMatch(mem[tab.tab[i].idx].h, name, output)}))

xmlFindExtraHandler(tab, nb, mem, name, output, env, opened) ==
    LET Uconv(r, tr) ==
            IF r.out # NullHandler
            THEN Found(0, r.out, r.heap, Append(tr, Opened("icu", name, r.ret)))
            ELSE Found(r.ret, NullHandler, r.heap, Append(tr, Opened("icu", name, r.ret)))
        Icu(tr) ==
            IF build.icu THEN Uconv(xmlCreateUconvHandler(mem, name, env), tr)
            ELSE Found(XML_ERR_UNSUPPORTED_ENCODING, NullHandler, mem, tr)
        Iconv(r, tr) ==
            IF r.out # NullHandler
            THEN Found(0, r.out, r.heap, Append(tr, Opened("iconv", name, r.ret)))
            ELSE IF r.ret # XML_ERR_UNSUPPORTED_ENCODING
            THEN Found(r.ret, NullHandler, r.heap, Append(tr, Opened("iconv", name, r.ret)))
            ELSE Icu(Append(tr, Opened("iconv", name, r.ret)))
        Scan(i) ==
            IF i # 0 THEN Found(0, tab.tab[i], mem, opened)
            ELSE IF build.iconv THEN Iconv(xmlCreateIconvHandler(mem, name, env), opened)
            ELSE Icu(opened)
    IN  IF tab.null THEN Scan(0)
        ELSE Scan(FirstIndex({i \in 1..nb : NameMatch(mem[tab.tab[i].idx].h, name, output)}))

(***************************************************************************)
(* xmlFindHandler                                                          *)
(***************************************************************************)
xmlFindHandler(tab, nb, mem, name, output, env, opened) ==
    LET Scan(i) ==
            IF i # 0 THEN Found(0, DefaultRef(i), mem, opened)
            ELSE xmlFindExtraHandler(tab, nb, mem, name, output, env, opened)
        In(table) ==
            Scan(FirstIndex({i \in 1..Len(table) : NameMatch(table[i], name, output)}))
    IN  In(defaultHandlers(build))

(***************************************************************************)
(* xmlLookupCharEncodingHandler, called with a valid out.                  *)
(***************************************************************************)
RECURSIVE xmlLookupCharEncodingHandler_names(_, _, _, _, _, _, _)
xmlLookupCharEncodingHandler_names(tab, nb, mem, names, i, env, opened) ==
    LET Step(r) ==
            IF r.out # NullHandler THEN Found(0, r.out, r.heap, r.opened)
            ELSE IF r.ret # XML_ERR_UNSUPPORTED_ENCODING THEN r
            ELSE xmlLookupCharEncodingHandler_names(tab, nb, r.heap, names, i + 1, env,
                                                    r.opened)
    IN  IF i > Len(names)
        THEN Found(XML_ERR_UNSUPPORTED_ENCODING, NullHandler, mem, opened)
        ELSE Step(xmlFindExtraHandler(tab, nb, mem, names[i], 0, env, opened))

xmlLookupCharEncodingHandler(tab, nb, mem, enc, env, opened) ==
    CASE enc = "XML_CHAR_ENCODING_ERROR" ->
            Found(XML_ERR_UNSUPPORTED_ENCODING, NullHandler, mem, opened)
      [] enc \in {"XML_CHAR_ENCODING_NONE", "XML_CHAR_ENCODING_UTF8"} ->
            Found(0, NullHandler, mem, opened)
      [] enc = "XML_CHAR_ENCODING_UTF16LE" -> Found(0, xmlUTF16LEHandler, mem, opened)
      [] enc = "XML_CHAR_ENCODING_UTF16BE" -> Found(0, xmlUTF16BEHandler, mem, opened)
      [] enc = "XML_CHAR_ENCODING_ASCII" -> Found(0, xmlAsciiHandler, mem, opened)
      [] enc = "XML_CHAR_ENCODING_8859_1" -> Found(0, xmlLatin1Handler, mem, opened)
      [] OTHER ->
            IF ~LookupName(enc).null
            THEN xmlFindExtraHandler(tab, nb, mem, LookupName(enc).s, 0, env, opened)
            ELSE xmlLookupCharEncodingHandler_names(tab, nb, mem, LookupNames(enc), 1,
                                                    env, opened)

(***************************************************************************)
(* xmlOpenCharEncodingHandler, called with a valid out.                    *)
(***************************************************************************)
xmlOpenCharEncodingHandler(aliases, tab, nb, mem, name, output, env) ==
    LET Fallback(r) ==
            IF r.out # NullHandler THEN Found(0, r.out, r.heap, r.opened)
            ELSE IF r.ret # XML_ERR_UNSUPPORTED_ENCODING THEN r
            ELSE xmlLookupCharEncodingHandler(tab, nb, r.heap,
                     xmlParseCharEncoding(aliases, name), env, r.opened)
        Resolve(nalias) ==
            Fallback(xmlFindHandler(tab, nb, mem, IF nalias.null THEN name.s ELSE nalias.s,
                                    output, env, <<>>))
    IN  IF name.null THEN Found(XML_ERR_ARGUMENT, NullHandler, mem, <<>>)
        ELSE IF xmlStrcasecmp(name.s, N_UTF_8) = 0 \/ xmlStrcasecmp(name.s, N_UTF8) = 0
        THEN Found(XML_ERR_OK, NullHandler, mem, <<>>)
        ELSE Resolve(xmlGetEncodingAlias(aliases, name.s))

(***************************************************************************)
(* Name resolution in three builds, over registries filled by               *)
(* xmlNewCharEncodingHandler and xmlAddEncodingAlias calls.  The heap      *)
(* holds at most MaxOpenHeap handlers.                                     *)
(***************************************************************************)
MaxOpenHeap == 2

OpenBuilds ==
    {[iconv |-> FALSE, icu |-> FALSE, iso8859x |-> TRUE, html |-> TRUE],
     [iconv |-> TRUE, icu |-> TRUE, iso8859x |-> TRUE, html |-> FALSE],
     [iconv |-> FALSE, icu |-> TRUE, iso8859x |-> FALSE, html |-> FALSE]}

OpenHandlers ==
    {[name |-> N_ISO_8859_2, input |-> "asciiToUTF8", output |-> NULL],
     [name |-> N_ISO_8859_2, input |-> "asciiToUTF8", output |-> "UTF8Toascii"],
     [name |-> N_ASCII, input |-> "asciiToUTF8", output |-> "UTF8Toascii"]}

N_LATIN2 == <<"L", "A", "T", "I", "N", "2">>

OpenNames ==
    {NullStr, Str(<<>>), Str(<<"u", "t", "f", "8">>), Str(N_ISO_8859_2),
     Str(<<"i", "s", "o", "-", "l", "a", "t", "i", "n", "-", "2">>), Str(N_LATIN2),
     Str(N_ASCII), Str(N_HTML), Str(<<"U", "T", "F", "1", "6">>)}

OpenEncodings ==
    {"XML_CHAR_ENCODING_ERROR", "XML_CHAR_ENCODING_NONE", "XML_CHAR_ENCODING_UTF16LE",
     "XML_CHAR_ENCODING_ASCII", "XML_CHAR_ENCODING_8859_2", "XML_CHAR_ENCODING_EBCDIC",
     "XML_CHAR_ENCODING_UCS4_2143"}

OkEnv == [iconv |-> "ok", icu |-> "ok", alloc |-> "none"]

OpenEnvs ==
    {OkEnv,
     [OkEnv EXCEPT !.iconv = "EINVAL"],
     [OkEnv EXCEPT !.iconv = "ENOMEM"],
     [OkEnv EXCEPT !.iconv = "EIO"],
     [OkEnv EXCEPT !.icu = "U_FILE_ACCESS_ERROR"],
     [OkEnv EXCEPT !.iconv = "EINVAL", !.icu = "U_MEMORY_ALLOCATION_ERROR"],
     [OkEnv EXCEPT !.alloc = "enc"]}

BuildEnvs == IF build.iconv \/ build.icu THEN OpenEnvs ELSE {OkEnv}

InitOpen ==
    /\ xmlLittleEndian = TRUE
    /\ build \in OpenBuilds
    /\ RegInit
    /\ ConvIdle
    /\ call = [op |-> "none"]

OpenRegister ==
    /\ Len(heap) < MaxOpenHeap
    /\ \E h \in OpenHandlers :
         \E r \in {xmlNewCharEncodingHandler(xmlCharEncodingAliases, handlers,
                       nbCharEncodingHandler, heap, Str(h.name), h.input, h.output,
                       "none")} :
             /\ handlers' = r.reg.handlers
             /\ nbCharEncodingHandler' = r.reg.nb
             /\ heap' = r.reg.heap
             /\ call' = [op |-> "xmlNewCharEncodingHandler", out |-> r.ret]
    /\ UNCHANGED <<xmlLittleEndian, build, xmlCharEncodingAliases, xmlCharEncodingAliasesNb,
                   xmlCharEncodingAliasesMax, aliasMap, convVars>>

OpenAlias ==
    \E r \in {xmlAddEncodingAlias(xmlCharEncodingAliases, xmlCharEncodingAliasesNb,
                                  xmlCharEncodingAliasesMax, N_ISO_8859_2, N_LATIN2,
                                  "none")} :
        /\ AliasSet(r)
        /\ aliasMap' = [k \in DOMAIN aliasMap \cup {N_LATIN2} |-> N_ISO_8859_2]
        /\ call' = [op |-> "xmlAddEncodingAlias", ret |-> r.ret]

OpenDone(op, arg, output, r) ==
    /\ Len(r.heap) <= MaxOpenHeap
    /\ heap' = r.heap
    /\ call' = [op |-> op, arg |-> arg, output |-> output, ret |-> r.ret, out |-> r.out,
                opened |-> r.opened]
    /\ UNCHANGED <<xmlLittleEndian, build, xmlCharEncodingAliases, xmlCharEncodingAliasesNb,
                   xmlCharEncodingAliasesMax, handlers, nbCharEncodingHandler, aliasMap,
                   convVars>>

OpenOpen ==
    \E name \in OpenNames, output \in {0, 1}, env \in BuildEnvs :
        OpenDone("xmlOpenCharEncodingHandler", name, output,
                 xmlOpenCharEncodingHandler(xmlCharEncodingAliases, handlers,
                     nbCharEncodingHandler, heap, name, output, env))

OpenLookup ==
    \E enc \in OpenEncodings, env \in BuildEnvs :
        OpenDone("xmlLookupCharEncodingHandler", enc, 0,
                 xmlLookupCharEncodingHandler(handlers, nbCharEncodingHandler, heap, enc,
                                              env, <<>>))

NextOpen == OpenRegister \/ OpenAlias \/ OpenOpen \/ OpenLookup

SpecOpen == InitOpen /\ [][NextOpen]_vars

(***************************************************************************)
(* What the claims about resolution speak of: a call of                    *)
(* xmlOpenCharEncodingHandler with a name that is not a spelling of UTF-8, *)
(* the name after alias normalisation, the built-in and the registered     *)
(* handlers that match a name in a direction.                              *)
(***************************************************************************)
OpenCall ==
    /\ call.op = "xmlOpenCharEncodingHandler"
    /\ ~call.arg.null
    /\ UpperCopy(call.arg.s, Len(call.arg.s)) \notin {N_UTF_8, N_UTF8}

Normalised(name) ==
    IF UpperCopy(name, Len(name)) \in DOMAIN aliasMap
    THEN aliasMap[UpperCopy(name, Len(name))]
    ELSE name

BuiltIns(name, output) ==
    {i \in 1..NUM_DEFAULT_HANDLERS(build) : NameMatch(defaultHandlers(build)[i], name, output)}

Registered(name, output) ==
    {i \in 1..nbCharEncodingHandler : NameMatch(Deref(handlers.tab[i]), name, output)}

SupportsDirection(h, output) ==
    IF output # 0
    THEN h.output # NULL \/ h.iconv_out # NULL \/ h.uconv_out # NULL
    ELSE h.input # NULL \/ h.iconv_in # NULL \/ h.uconv_in # NULL

(***************************************************************************)
(* The parts of the priority order: the tables, the backends, and what     *)
(* follows from it for a registered handler with the name of a built-in    *)
(* one.                                                                    *)
(***************************************************************************)
TableOrder ==
    /\ BuiltIns(Normalised(call.arg.s), call.output) # {} =>
           call.out = DefaultRef(FirstIndex(BuiltIns(Normalised(call.arg.s), call.output)))
    /\ (/\ BuiltIns(Normalised(call.arg.s), call.output) = {}
        /\ Registered(Normalised(call.arg.s), call.output) # {}) =>
           call.out = handlers.tab[FirstIndex(Registered(Normalised(call.arg.s),
                                                         call.output))]

BackendOrder ==
    /\ \A i \in 1..Len(call.opened) :
           (call.opened[i].backend = "icu" /\ build.iconv) =>
               /\ i > 1
               /\ call.opened[i - 1] = Opened("iconv", call.opened[i].name,
                                              XML_ERR_UNSUPPORTED_ENCODING)
    /\ \A i \in 1..Len(call.opened) :
           call.opened[i].ret = 0 =>
               /\ i = Len(call.opened)
               /\ call.out = HeapRef(Len(heap))
               /\ Deref(call.out).name = call.opened[i].name
    /\ \A i \in 1..Len(call.opened) :
           /\ BuiltIns(call.opened[i].name, call.output) = {}
           /\ Registered(call.opened[i].name, call.output) = {}

BuiltInFirst ==
    \A i \in 1..nbCharEncodingHandler :
        call.out = handlers.tab[i] =>
            BuiltIns(Deref(handlers.tab[i]).name, call.output) = {}

(* C4: xmlOpenCharEncodingHandler returns, for the name after alias       *)
(* normalisation, the first match among the built-in handlers, then the   *)
(* registered handlers in registration order, then iconv, then ICU; a     *)
(* registered handler whose name equals a built-in's name is never        *)
(* returned for a direction that built-in supports; a backend is opened   *)
(* only for a name neither table has a match for.                         *)
C4_AsStated == OpenCall => (TableOrder /\ BackendOrder /\ BuiltInFirst)

(* C5: a handler that xmlOpenCharEncodingHandler returns has a converter  *)
(* for the direction asked for, the fallback through the encoding         *)
(* included.                                                              *)
C5_AsStated ==
    (OpenCall /\ call.out # NullHandler) => SupportsDirection(Deref(call.out), call.output)

(* C6: for a name that is not a spelling of UTF-8, the empty name         *)
(* included, xmlOpenCharEncodingHandler never returns XML_ERR_OK with a   *)
(* NULL handler, and when no table and no backend resolves the name it    *)
(* returns XML_ERR_UNSUPPORTED_ENCODING.                                  *)
C6_AsStated ==
    (OpenCall /\ call.out = NullHandler) =>
        /\ call.ret # XML_ERR_OK
        /\ (\A i \in 1..Len(call.opened) :
                call.opened[i].ret = XML_ERR_UNSUPPORTED_ENCODING)
              => call.ret = XML_ERR_UNSUPPORTED_ENCODING

(* C7: xmlLookupCharEncodingHandler resolves the names of an encoding     *)
(* against the built-in handlers first: for an encoding one of whose      *)
(* names has a built-in handler that decodes, that handler is returned.   *)
C7_AsStated ==
    (/\ call.op = "xmlLookupCharEncodingHandler"
     /\ ~LookupName(call.arg).null
     /\ BuiltIns(LookupName(call.arg).s, 0) # {}) =>
        /\ call.ret = 0
        /\ call.out = DefaultRef(FirstIndex(BuiltIns(LookupName(call.arg).s, 0)))

(***************************************************************************)
(* xmlDetectCharEncoding with a test of len dropped: the byte-order marks  *)
(* of UTF-16 are looked for whatever len is.                               *)
(***************************************************************************)
xmlDetectCharEncoding_NoLen(in, len) ==
    LET Is4(b) == len >= 4 /\ SubSeq(in.s, 1, 4) = b
    IN  IF in.null THEN "XML_CHAR_ENCODING_NONE"
        ELSE IF Is4(<<0, 0, 0, 60>>) THEN "XML_CHAR_ENCODING_UCS4BE"
        ELSE IF Is4(<<60, 0, 0, 0>>) THEN "XML_CHAR_ENCODING_UCS4LE"
        ELSE IF Is4(<<0, 0, 60, 0>>) THEN "XML_CHAR_ENCODING_UCS4_2143"
        ELSE IF Is4(<<0, 60, 0, 0>>) THEN "XML_CHAR_ENCODING_UCS4_3412"
        ELSE IF Is4(<<76, 111, 167, 148>>) THEN "XML_CHAR_ENCODING_EBCDIC"
        ELSE IF Is4(<<60, 63, 120, 109>>) THEN "XML_CHAR_ENCODING_UTF8"
        ELSE IF Is4(<<60, 0, 63, 0>>) THEN "XML_CHAR_ENCODING_UTF16LE"
        ELSE IF Is4(<<0, 60, 0, 63>>) THEN "XML_CHAR_ENCODING_UTF16BE"
        ELSE IF len >= 3 /\ SubSeq(in.s, 1, 3) = <<239, 187, 191>>
        THEN "XML_CHAR_ENCODING_UTF8"
        ELSE IF Len(in.s) >= 2 /\ SubSeq(in.s, 1, 2) = <<254, 255>>
        THEN "XML_CHAR_ENCODING_UTF16BE"
        ELSE IF Len(in.s) >= 2 /\ SubSeq(in.s, 1, 2) = <<255, 254>>
        THEN "XML_CHAR_ENCODING_UTF16LE"
        ELSE "XML_CHAR_ENCODING_NONE"

(***************************************************************************)
(* xmlDetectCharEncoding: in points to at least len bytes, or is NULL.     *)
(***************************************************************************)
xmlDetectCharEncoding(in, len) ==
    LET Is4(b) == len >= 4 /\ SubSeq(in.s, 1, 4) = b
    IN  IF in.null THEN "XML_CHAR_ENCODING_NONE"
        ELSE IF Is4(<<0, 0, 0, 60>>) THEN "XML_CHAR_ENCODING_UCS4BE"
        ELSE IF Is4(<<60, 0, 0, 0>>) THEN "XML_CHAR_ENCODING_UCS4LE"
        ELSE IF Is4(<<0, 0, 60, 0>>) THEN "XML_CHAR_ENCODING_UCS4_2143"
        ELSE IF Is4(<<0, 60, 0, 0>>) THEN "XML_CHAR_ENCODING_UCS4_3412"
        ELSE IF Is4(<<76, 111, 167, 148>>) THEN "XML_CHAR_ENCODING_EBCDIC"
        ELSE IF Is4(<<60, 63, 120, 109>>) THEN "XML_CHAR_ENCODING_UTF8"
        ELSE IF Is4(<<60, 0, 63, 0>>) THEN "XML_CHAR_ENCODING_UTF16LE"
        ELSE IF Is4(<<0, 60, 0, 63>>) THEN "XML_CHAR_ENCODING_UTF16BE"
        ELSE IF len >= 3 /\ SubSeq(in.s, 1, 3) = <<239, 187, 191>>
        THEN "XML_CHAR_ENCODING_UTF8"
        ELSE IF len >= 2 /\ SubSeq(in.s, 1, 2) = <<254, 255>>
        THEN "XML_CHAR_ENCODING_UTF16BE"
        ELSE IF len >= 2 /\ SubSeq(in.s, 1, 2) = <<255, 254>>
        THEN "XML_CHAR_ENCODING_UTF16LE"
        ELSE "XML_CHAR_ENCODING_NONE"

(***************************************************************************)
(* Detection on the first bytes of an entity: every text of up to          *)
(* MaxDetect bytes from DetectBytes, and every pattern detection knows     *)
(* followed by up to two more bytes; the caller passes the text or NULL    *)
(* and any len up to the length of the text.                               *)
(***************************************************************************)
MaxDetect == 4

DetectBytes == {0, 60, 254, 255}

DetectPatterns ==
    {<<0, 0, 0, 60>>, <<60, 0, 0, 0>>, <<0, 0, 60, 0>>, <<0, 60, 0, 0>>,
     <<76, 111, 167, 148>>, <<60, 63, 120, 109>>, <<60, 0, 63, 0>>, <<0, 60, 0, 63>>,
     <<239, 187, 191>>, <<254, 255>>, <<255, 254>>}

DetectTexts ==
    SeqsUpTo(DetectBytes, MaxDetect)
    \cup {p \o t : p \in DetectPatterns, t \in {<<>>, <<60>>, <<60, 63>>, <<0, 65>>}}

InitDetect ==
    /\ xmlLittleEndian \in BOOLEAN
    /\ build = PlainBuild
    /\ RegInit
    /\ encoder = NullHandler
    /\ src \in DetectTexts
    /\ inBuf = NewBuf(<<>>, 1)
    /\ outBuf = NewBuf(<<>>, 1)
    /\ error = 0
    /\ call = [op |-> "none"]

Detect ==
    /\ \E in \in {NullStr, Str(src)}, len \in 0..Len(src) :
           call' = [op |-> "xmlDetectCharEncoding", in |-> in, len |-> len,
                    ret |-> xmlDetectCharEncoding(in, len)]
    /\ UNCHANGED <<xmlLittleEndian, build, regVars, convVars>>

NextDetect == Detect

SpecDetect == InitDetect /\ [][NextDetect]_vars

DetectCall == call.op = "xmlDetectCharEncoding" /\ ~call.in.null

(* C12: detection is a function of the first len bytes that consumes      *)
(* nothing: UTF8 for 3C 3F 78 6D, UTF16BE for FE FF, UTF16LE for FF FE,   *)
(* UCS4BE for 00 00 00 3C, NONE for no byte, for one byte and for bytes   *)
(* that match no pattern; for len >= 4 the first 4 bytes decide.          *)
C12_Detection ==
    DetectCall =>
        /\ call.in.s = src
        /\ call.ret = xmlDetectCharEncoding(Str(Take(src, call.len)), call.len)
        /\ Take(src, call.len) = <<60, 63, 120, 109>> => call.ret = "XML_CHAR_ENCODING_UTF8"
        /\ Take(src, call.len) = <<254, 255>> => call.ret = "XML_CHAR_ENCODING_UTF16BE"
        /\ Take(src, call.len) = <<255, 254>> => call.ret = "XML_CHAR_ENCODING_UTF16LE"
        /\ Take(src, call.len) = <<0, 0, 0, 60>> => call.ret = "XML_CHAR_ENCODING_UCS4BE"
        /\ call.len <= 1 => call.ret = "XML_CHAR_ENCODING_NONE"
        /\ (\A p \in DetectPatterns : Take(src, Min(call.len, Len(p))) # p)
               => call.ret = "XML_CHAR_ENCODING_NONE"
        /\ call.len >= 4 => call.ret = xmlDetectCharEncoding(Str(Take(src, 4)), 4)

C12_Witness ==
    /\ DetectCall
    /\ call.len = 1
    /\ Take(src, 2) = <<254, 255>>
    /\ call.ret = "XML_CHAR_ENCODING_NONE"

(* C13: the byte-order mark of UTF-8 is recognised only with len = 3,     *)
(* those of UTF-16 only with len = 2; with 4 or more bytes of which the   *)
(* first 4 match no 4-byte pattern the result is NONE, also when the      *)
(* input begins with a byte-order mark.                                   *)
C13_AsStated ==
    DetectCall =>
        /\ (call.len >= 3 /\ Take(src, 3) = <<239, 187, 191>>
            /\ call.ret = "XML_CHAR_ENCODING_UTF8") => call.len = 3
        /\ (call.len >= 2 /\ Take(src, 2) \in {<<254, 255>>, <<255, 254>>}
            /\ call.ret \in {"XML_CHAR_ENCODING_UTF16BE", "XML_CHAR_ENCODING_UTF16LE"})
               => call.len = 2
        /\ (call.len >= 4 /\ \A p \in DetectPatterns : Len(p) = 4 => Take(src, 4) # p)
               => call.ret = "XML_CHAR_ENCODING_NONE"

(***************************************************************************)
(* xmlCharEncInput with a valid input whose encoder, buffer and raw are    *)
(* set: in is input->raw, out is input->buffer, err is input->error.       *)
(* inTotal is the number of bytes of in converted by the passes made so    *)
(* far.  The result has the value returned, the buffers, input->error,     *)
(* what the call adds to input->rawconsumed, and in found the code the     *)
(* call ended on: the last value of ret, or the failed xmlBufGrow.         *)
(***************************************************************************)
RECURSIVE xmlCharEncInput_loop(_, _, _, _, _, _, _)
xmlCharEncInput_loop_NoGrow(enc, in, out, inTotal, err, env, n) ==
    LET Return(r, out1, total) ==
            IF (r.ret # 0 /\ r.outlen = 0) \/ r.ret = XML_ENC_ERR_MEMORY
            THEN [ret |-> r.ret, in |-> xmlBufShrink(in, total), out |-> out1,
                  error |-> IF err = 0 THEN xmlEncConvertError(r.ret) ELSE err,
                  rawconsumed |-> r.inlen, found |-> r.ret, args |-> <<>>]
            ELSE [ret |-> r.outlen, in |-> xmlBufShrink(in, total), out |-> out1,
                  error |-> err, rawconsumed |-> r.inlen, found |-> r.ret,
                  args |-> <<>>]
        Converted(g, n1, r) ==
            IF r.ret = XML_ENC_ERR_SPACE
            THEN xmlCharEncInput_loop(enc, in, xmlBufAddLen(g.buf, r.out, r.outlen),
                                      inTotal + r.inlen, err, env, Called(n1))
            ELSE Return(r, xmlBufAddLen(g.buf, r.out, r.outlen), inTotal + r.inlen)
        Grown(g, n1) ==
            IF g.ret < 0
            THEN [ret |-> XML_ENC_ERR_MEMORY, in |-> in, out |-> g.buf,
                  error |-> XML_ERR_NO_MEMORY, rawconsumed |-> 0,
                  found |-> XML_ENC_ERR_MEMORY, args |-> <<>>]
            ELSE Passed(xmlBufUse(in) - inTotal, xmlBufUse(in) - inTotal,
                        xmlBufAvail(g.buf),
                     Converted(g, n1,
                         xmlEncInputChunk(enc, xmlBufAvail(g.buf),
                                          Drop(in.content, inTotal), Oracle(env, n1))))
        Start(g) == Grown(g, Grew(n, g))
    IN  Start(IF xmlBufAvail(out) < 0
              THEN xmlBufGrow(out, 4096, Fails(env, n))
              ELSE [ret |-> 0, buf |-> out, realloc |-> FALSE])

xmlCharEncInput_loop(enc, in, out, inTotal, err, env, n) ==
    LET Return(r, out1, total) ==
            IF (r.ret # 0 /\ r.outlen = 0) \/ r.ret = XML_ENC_ERR_MEMORY
            THEN [ret |-> r.ret, in |-> xmlBufShrink(in, total), out |-> out1,
                  error |-> IF err = 0 THEN xmlEncConvertError(r.ret) ELSE err,
                  rawconsumed |-> r.inlen, found |-> r.ret, args |-> <<>>]
            ELSE [ret |-> r.outlen, in |-> xmlBufShrink(in, total), out |-> out1,
                  error |-> err, rawconsumed |-> r.inlen, found |-> r.ret,
                  args |-> <<>>]
        Converted(g, n1, r) ==
            IF r.ret = XML_ENC_ERR_SPACE
            THEN xmlCharEncInput_loop(enc, in, xmlBufAddLen(g.buf, r.out, r.outlen),
                                      inTotal + r.inlen, err, env, Called(n1))
            ELSE Return(r, xmlBufAddLen(g.buf, r.out, r.outlen), inTotal + r.inlen)
        Grown(g, n1) ==
            IF g.ret < 0
            THEN [ret |-> XML_ENC_ERR_MEMORY, in |-> in, out |-> g.buf,
                  error |-> XML_ERR_NO_MEMORY, rawconsumed |-> 0,
                  found |-> XML_ENC_ERR_MEMORY, args |-> <<>>]
            ELSE Passed(xmlBufUse(in) - inTotal, xmlBufUse(in) - inTotal,
                        xmlBufAvail(g.buf),
                     Converted(g, n1,
                         xmlEncInputChunk(enc, xmlBufAvail(g.buf),
                                          Drop(in.content, inTotal), Oracle(env, n1))))
        Start(g) == Grown(g, Grew(n, g))
    IN  Start(IF xmlBufAvail(out) < 4096
              THEN xmlBufGrow(out, 4096, Fails(env, n))
              ELSE [ret |-> 0, buf |-> out, realloc |-> FALSE])

xmlCharEncInput_DropRest(enc, in, out, err, env) ==
    IF xmlBufUse(in) = 0
    THEN [ret |-> 0, in |-> in, out |-> out, error |-> err, rawconsumed |-> 0,
          found |-> 0, args |-> <<>>]
    ELSE [xmlCharEncInput_loop(enc, in, out, 0, err, env, [grows |-> 0, calls |-> 0])
             EXCEPT !.in = xmlBufShrink(in, xmlBufUse(in))]

xmlCharEncInput(enc, in, out, err, env) ==
    IF xmlBufUse(in) = 0
    THEN [ret |-> 0, in |-> in, out |-> out, error |-> err, rawconsumed |-> 0,
          found |-> 0, args |-> <<>>]
    ELSE xmlCharEncInput_loop(enc, in, out, 0, err, env, [grows |-> 0, calls |-> 0])

(***************************************************************************)
(* Decoding a parser input through xmlCharEncInput and encoding an output  *)
(* buffer through xmlCharEncOutput with the built-in converters and with   *)
(* converters of the iconv and ICU backends.  The stream is created with   *)
(* its encoder, its direction and the bytes to convert.  A backend         *)
(* converter does what the library does: it fills the room it is given     *)
(* and reports that it is full, or stops at a byte it rejects.             *)
(***************************************************************************)
MaxIn == 2

MaxCalls == 2

BigLen == 5000

InBytes == {65, 128}

InBuild == [iconv |-> TRUE, icu |-> TRUE, iso8859x |-> FALSE, html |-> FALSE]

InHeap ==
    xmlCreateUconvHandler(xmlCreateIconvHandler(<<>>, N_ISO_8859_2, OkEnv).heap,
                          N_ISO_8859_2, OkEnv).heap

InEncoders == {xmlAsciiHandler, xmlUTF16LEHandler, HeapRef(1), HeapRef(2)}

InOutSizes == {100, 6000}

BigText == [i \in 1..BigLen |-> 65]

InitIn ==
    /\ xmlLittleEndian = TRUE
    /\ build = InBuild
    /\ xmlCharEncodingAliases = [null |-> TRUE, tab |-> <<>>]
    /\ xmlCharEncodingAliasesNb = 0
    /\ xmlCharEncodingAliasesMax = 0
    /\ handlers = [null |-> TRUE, tab |-> <<>>]
    /\ nbCharEncodingHandler = 0
    /\ heap = InHeap
    /\ aliasMap = <<>>
    /\ encoder \in InEncoders
    /\ src \in SeqsUpTo(InBytes, MaxIn)
                 \cup (IF encoder.seg = "heap" THEN {BigText} ELSE {})
    /\ inBuf = NewBuf(src, Len(src) + 1)
    /\ outBuf \in {NewBuf(<<>>, sz) : sz \in InOutSizes}
    /\ error = 0
    /\ call \in {[op |-> "none", output |-> o, nth |-> 0, rawconsumed |-> 0,
                   removed |-> 0] : o \in {0, 1}}

(***************************************************************************)
(* What a backend converter may do with the bytes c when it has room for   *)
(* avail bytes: when c fits, it converts all of c, or stops before a byte  *)
(* with an error; when c does not fit, it fills the room, reports that,    *)
(* and is called again with the rest.  c is as long as its conversion,     *)
(* except in the case Tight.                                               *)
(***************************************************************************)
InOracles(h, c, avail) ==
    LET full == IF h.iconv_in # NULL THEN "E2BIG" ELSE "U_BUFFER_OVERFLOW_ERROR"
        errs == IF h.iconv_in # NULL THEN {"EILSEQ", "EINVAL", "EBADF"}
                ELSE {"U_INVALID_CHAR_FOUND", "U_TRUNCATED_CHAR_FOUND"}
        Final(rest) ==
            {[out |-> rest, consumed |-> Len(rest), err |-> "none"]}
            \cup {[out |-> Take(rest, k), consumed |-> k, err |-> e] :
                    k \in {j \in {0, 1} : j < Len(rest)}, e \in errs}
        (* a converter that stores up to four bytes for each byte of c   *)
        (* after four bytes of its own runs out of room before the last   *)
        (* byte of c                                                      *)
        Tight ==
            IF c # <<>> /\ avail < 4 * Len(c) + 4
            THEN {<<[out |-> [i \in 1..avail |-> 0], consumed |-> Len(c) - 1,
                     err |-> full], f>> : f \in Final(Drop(c, Len(c) - 1))}
            ELSE {}
    IN  IF h.input # NULL \/ h.output # NULL THEN {<<>>}
        ELSE IF Len(c) <= avail THEN {<<f>> : f \in Final(c)} \cup Tight
        ELSE {<<[out |-> Take(c, avail), consumed |-> avail, err |-> full], f>> :
                 f \in Final(Drop(c, avail))}

InInput ==
    /\ call.output = 0
    /\ call.nth < MaxCalls
    /\ \E failAt \in 0..2 :
       \E g \in {xmlBufGrow(outBuf, IF xmlBufAvail(outBuf) < 4096 THEN 4096 ELSE 0,
                            FALSE)} :
       \E oracle \in InOracles(Deref(encoder), inBuf.content, xmlBufAvail(g.buf)) :
       \E r \in {xmlCharEncInput(Deref(encoder), inBuf, outBuf, error,
                                 [failAt |-> failAt, oracle |-> oracle])} :
           /\ inBuf' = r.in
           /\ outBuf' = r.out
           /\ error' = r.error
           /\ call' = [op |-> "xmlCharEncInput", output |-> 0, nth |-> call.nth + 1, ret |-> r.ret,
                       found |-> r.found, failAt |-> failAt, passes |-> Len(oracle),
                       toconv |-> xmlBufUse(inBuf), before |-> xmlBufUse(outBuf),
                       errorBefore |-> error, args |-> r.args,
                       rawconsumed |-> call.rawconsumed + r.rawconsumed,
                       removed |-> call.removed + xmlBufUse(inBuf) - xmlBufUse(r.in)]
    /\ UNCHANGED <<xmlLittleEndian, build, regVars, encoder, src>>

InOutput ==
    /\ call.output = 1
    /\ call.nth < MaxCalls
    /\ \E failAt \in 0..2 :
       \E toconv \in {Min(xmlBufUse(inBuf), 64 * 1024)} :
       \E g \in {xmlBufGrow(outBuf, IF toconv * 4 >= xmlBufAvail(outBuf)
                                    THEN toconv * 4 ELSE 0, FALSE)} :
       \E oracle \in InOracles(Deref(encoder), Take(inBuf.content, toconv),
                                xmlBufAvail(g.buf)) :
       \E r \in {xmlCharEncOutput(Deref(encoder), inBuf, outBuf, error, FALSE,
                                  [failAt |-> failAt, oracle |-> oracle])} :
           /\ inBuf' = r.in
           /\ outBuf' = r.out
           /\ error' = r.error
           /\ call' = [op |-> "xmlCharEncOutput", output |-> 1, nth |-> call.nth + 1, ret |-> r.ret,
                       failAt |-> failAt,
                       toconv |-> xmlBufUse(inBuf), before |-> xmlBufUse(outBuf),
                       errorBefore |-> error, args |-> r.args,
                       rawconsumed |-> call.rawconsumed, removed |-> call.removed]
    /\ UNCHANGED <<xmlLittleEndian, build, regVars, encoder, src>>

NextIn == InInput \/ InOutput

SpecIn == InitIn /\ [][NextIn]_vars

InCall == call.op = "xmlCharEncInput"

(***************************************************************************)
(* C14: xmlCharEncInput and xmlCharEncOutput never return                  *)
(* XML_ENC_ERR_SPACE, nor xmlCharEncInput XML_ENC_ERR_PARTIAL; and when a  *)
(* call of xmlCharEncInput ends on an error of the handler or of the       *)
(* allocator (INPUT, INTERNAL, MEMORY), it returns that code and the       *)
(* matching error is recorded in input->error, whether or not the call     *)
(* appended bytes to the decoded buffer.                                   *)
(***************************************************************************)
C14_AsStated ==
    /\ call.op \in {"xmlCharEncInput", "xmlCharEncOutput"}
           => call.ret # XML_ENC_ERR_SPACE
    /\ InCall => call.ret # XML_ENC_ERR_PARTIAL
    /\ (InCall /\ call.found \in {XML_ENC_ERR_INPUT, XML_ENC_ERR_INTERNAL,
                                  XML_ENC_ERR_MEMORY})
           => /\ call.ret = call.found
              /\ error = IF call.errorBefore = 0 THEN xmlEncConvertError(call.found)
                         ELSE call.errorBefore

(***************************************************************************)
(* C16: a non-negative return value of xmlCharEncInput is the number of    *)
(* bytes the call appended to the decoded buffer, over all the passes of   *)
(* its loop.                                                               *)
(***************************************************************************)
C16_AsStated ==
    (InCall /\ call.ret >= 0) => call.ret = xmlBufUse(outBuf) - call.before

(***************************************************************************)
(* Encoding a buffer that is not well-formed UTF-8: the calls of SpecEsc   *)
(* on every byte sequence of up to MaxMalformed bytes.                     *)
(***************************************************************************)
MaxMalformed == 2

MalformedBytes == {65, 128, 195, 169}

InitMalformed ==
    /\ xmlLittleEndian \in BOOLEAN
    /\ build = PlainBuild
    /\ RegInit
    /\ encoder \in EscEncoders
    /\ src \in SeqsUpTo(MalformedBytes, MaxMalformed)
    /\ inBuf = NewBuf(src, Len(src) + 1)
    /\ outBuf \in {NewBuf(<<>>, sz) : sz \in EscOutSizes}
    /\ error = 0
    /\ call = [op |-> "none"]

SpecMalformed == InitMalformed /\ [][NextEsc]_vars

(***************************************************************************)
(* C15: when a conversion call of xmlCharEncOutput or xmlCharEncOutFunc    *)
(* in which no reallocation failed stops at bytes on which the encoder     *)
(* reports XML_ENC_ERR_INPUT and which xmlGetUTF8Char cannot decode, the   *)
(* call returns XML_ENC_ERR_INTERNAL.                                      *)
(***************************************************************************)
C15_AsStated ==
    (/\ call.op \in {"xmlCharEncOutput", "xmlCharEncOutFunc"}
     /\ ~call.init
     /\ call.failAt = 0
     /\ xmlBufUse(inBuf) > 0
     /\ xmlGetUTF8Char(inBuf.content, xmlBufUse(inBuf)).cur <= 0
     /\ xmlEncOutputChunk(Deref(encoder), 4096, inBuf.content, FALSE,
                          Oracle(NoEnv, [grows |-> 0, calls |-> 0])).ret
            = XML_ENC_ERR_INPUT)
        => call.ret = XML_ENC_ERR_INTERNAL

(***************************************************************************)
(* The tables of the code pages ISO-8859-2 .. ISO-8859-16, by the number   *)
(* of the page.  xmlunicodetable_ISO8859[n] has the code point of each     *)
(* byte 0x80 .. 0xFF (0: undefined); xmltranscodetable_ISO8859[n] is the   *)
(* two-level table for the other direction.  The elements of a C array     *)
(* t[i] are t[i + 1] here.                                                 *)
(***************************************************************************)

xmlunicodetable_ISO8859 ==
    [n \in {2} |->
        <<128, 129, 130, 131, 132, 133, 134, 135, 136, 137, 138, 139, 140, 141, 142, 143,
          144, 145, 146, 147, 148, 149, 150, 151, 152, 153, 154, 155, 156, 157, 158, 159,
          160, 260, 728, 321, 164, 317, 346, 167, 168, 352, 350, 356, 377, 173, 381, 379,
          176, 261, 731, 322, 180, 318, 347, 711, 184, 353, 351, 357, 378, 733, 382, 380,
          340, 193, 194, 258, 196, 313, 262, 199, 268, 201, 280, 203, 282, 205, 206, 270,
          272, 323, 327, 211, 212, 336, 214, 215, 344, 366, 218, 368, 220, 221, 354, 223,
          341, 225, 226, 259, 228, 314, 263, 231, 269, 233, 281, 235, 283, 237, 238, 271,
          273, 324, 328, 243, 244, 337, 246, 247, 345, 367, 250, 369, 252, 253, 355, 729>>]
    @@ [n \in {3} |->
        <<128, 129, 130, 131, 132, 133, 134, 135, 136, 137, 138, 139, 140, 141, 142, 143,
          144, 145, 146, 147, 148, 149, 150, 151, 152, 153, 154, 155, 156, 157, 158, 159,
          160, 294, 728, 163, 164, 0, 292, 167, 168, 304, 350, 286, 308, 173, 0, 379,
          176, 295, 178, 179, 180, 181, 293, 183, 184, 305, 351, 287, 309, 189, 0, 380,
          192, 193, 194, 0, 196, 266, 264, 199, 200, 201, 202, 203, 204, 205, 206, 207,
          0, 209, 210, 211, 212, 288, 214, 215, 284, 217, 218, 219, 220, 364, 348, 223,
          224, 225, 226, 0, 228, 267, 265, 231, 232, 233, 234, 235, 236, 237, 238, 239,
          0, 241, 242, 243, 244, 289, 246, 247, 285, 249, 250, 251, 252, 365, 349, 729>>]
    @@ [n \in {4} |->
        <<128, 129, 130, 131, 132, 133, 134, 135, 136, 137, 138, 139, 140, 141, 142, 143,
          144, 145, 146, 147, 148, 149, 150, 151, 152, 153, 154, 155, 156, 157, 158, 159,
          160, 260, 312, 342, 164, 296, 315, 167, 168, 352, 274, 290, 358, 173, 381, 175,
          176, 261, 731, 343, 180, 297, 316, 711, 184, 353, 275, 291, 359, 330, 382, 331,
          256, 193, 194, 195, 196, 197, 198, 302, 268, 201, 280, 203, 278, 205, 206, 298,
          272, 325, 332, 310, 212, 213, 214, 215, 216, 370, 218, 219, 220, 360, 362, 223,
          257, 225, 226, 227, 228, 229, 230, 303, 269, 233, 281, 235, 279, 237, 238, 299,
          273, 326, 333, 311, 244, 245, 246, 247, 248, 371, 250, 251, 252, 361, 363, 729>>]
    @@ [n \in {5} |->
        <<128, 129, 130, 131, 132, 133, 134, 135, 136, 137, 138, 139, 140, 141, 142, 143,
          144, 145, 146, 147, 148, 149, 150, 151, 152, 153, 154, 155, 156, 157, 158, 159,
          160, 1025, 1026, 1027, 1028, 1029, 1030, 1031, 1032, 1033, 1034, 1035, 1036, 173, 1038, 1039,
          1040, 1041, 1042, 1043, 1044, 1045, 1046, 1047, 1048, 1049, 1050, 1051, 1052, 1053, 1054, 1055,
          1056, 1057, 1058, 1059, 1060, 1061, 1062, 1063, 1064, 1065, 1066, 1067, 1068, 1069, 1070, 1071,
          1072, 1073, 1074, 1075, 1076, 1077, 1078, 1079, 1080, 1081, 1082, 1083, 1084, 1085, 1086, 1087,
          1088, 1089, 1090, 1091, 1092, 1093, 1094, 1095, 1096, 1097, 1098, 1099, 1100, 1101, 1102, 1103,
          8470, 1105, 1106, 1107, 1108, 1109, 1110, 1111, 1112, 1113, 1114, 1115, 1116, 167, 1118, 1119>>]
    @@ [n \in {6} |->
        <<128, 129, 130, 131, 132, 133, 134, 135, 136, 137, 138, 139, 140, 141, 142, 143,
          144, 145, 146, 147, 148, 149, 150, 151, 152, 153, 154, 155, 156, 157, 158, 159,
          160, 0, 0, 0, 164, 0, 0, 0, 0, 0, 0, 0, 1548, 173, 0, 0,
          0, 0, 0, 0, 0, 0, 0, 0, 0, 0, 0, 1563, 0, 0, 0, 1567,
          0, 1569, 1570, 1571, 1572, 1573, 1574, 1575, 1576, 1577, 1578, 1579, 1580, 1581, 1582, 1583,
          1584, 1585, 1586, 1587, 1588, 1589, 1590, 1591, 1592, 1593, 1594, 0, 0, 0, 0, 0,
          1600, 1601, 1602, 1603, 1604, 1605, 1606, 1607, 1608, 1609, 1610, 1611, 1612, 1613, 1614, 1615,
          1616, 1617, 1618, 0, 0, 0, 0, 0, 0, 0, 0, 0, 0, 0, 0, 0>>]
    @@ [n \in {7} |->
        <<128, 129, 130, 131, 132, 133, 134, 135, 136, 137, 138, 139, 140, 141, 142, 143,
          144, 145, 146, 147, 148, 149, 150, 151, 152, 153, 154, 155, 156, 157, 158, 159,
          160, 8216, 8217, 163, 0, 0, 166, 167, 168, 169, 0, 171, 172, 173, 0, 8213,
          176, 177, 178, 179, 900, 901, 902, 183, 904, 905, 906, 187, 908, 189, 910, 911,
          912, 913, 914, 915, 916, 917, 918, 919, 920, 921, 922, 923, 924, 925, 926, 927,
          928, 929, 0, 931, 932, 933, 934, 935, 936, 937, 938, 939, 940, 941, 942, 943,
          944, 945, 946, 947, 948, 949, 950, 951, 952, 953, 954, 955, 956, 957, 958, 959,
          960, 961, 962, 963, 964, 965, 966, 967, 968, 969, 970, 971, 972, 973, 974, 0>>]
    @@ [n \in {8} |->
        <<128, 129, 130, 131, 132, 133, 134, 135, 136, 137, 138, 139, 140, 141, 142, 143,
          144, 145, 146, 147, 148, 149, 150, 151, 152, 153, 154, 155, 156, 157, 158, 159,
          160, 0, 162, 163, 164, 165, 166, 167, 168, 169, 215, 171, 172, 173, 174, 175,
          176, 177, 178, 179, 180, 181, 182, 183, 184, 185, 247, 187, 188, 189, 190, 0,
          0, 0, 0, 0, 0, 0, 0, 0, 0, 0, 0, 0, 0, 0, 0, 0,
          0, 0, 0, 0, 0, 0, 0, 0, 0, 0, 0, 0, 0, 0, 0, 8215,
          1488, 1489, 1490, 1491, 1492, 1493, 1494, 1495, 1496, 1497, 1498, 1499, 1500, 1501, 1502, 1503,
          1504, 1505, 1506, 1507, 1508, 1509, 1510, 1511, 1512, 1513, 1514, 0, 0, 8206, 8207, 0>>]
    @@ [n \in {9} |->
        <<128, 129, 130, 131, 132, 133, 134, 135, 136, 137, 138, 139, 140, 141, 142, 143,
          144, 145, 146, 147, 148, 149, 150, 151, 152, 153, 154, 155, 156, 157, 158, 159,
          160, 161, 162, 163, 164, 165, 166, 167, 168, 169, 170, 171, 172, 173, 174, 175,
          176, 177, 178, 179, 180, 181, 182, 183, 184, 185, 186, 187, 188, 189, 190, 191,
          192, 193, 194, 195, 196, 197, 198, 199, 200, 201, 202, 203, 204, 205, 206, 207,
          286, 209, 210, 211, 212, 213, 214, 215, 216, 217, 218, 219, 220, 304, 350, 223,
          224, 225, 226, 227, 228, 229, 230, 231, 232, 233, 234, 235, 236, 237, 238, 239,
          287, 241, 242, 243, 244, 245, 246, 247, 248, 249, 250, 251, 252, 305, 351, 255>>]
    @@ [n \in {10} |->
        <<128, 129, 130, 131, 132, 133, 134, 135, 136, 137, 138, 139, 140, 141, 142, 143,
          144, 145, 146, 147, 148, 149, 150, 151, 152, 153, 154, 155, 156, 157, 158, 159,
          160, 260, 274, 290, 298, 296, 310, 167, 315, 272, 352, 358, 381, 173, 362, 330,
          176, 261, 275, 291, 299, 297, 311, 183, 316, 273, 353, 359, 382, 8213, 363, 331,
          256, 193, 194, 195, 196, 197, 198, 302, 268, 201, 280, 203, 278, 205, 206, 207,
          208, 325, 332, 211, 212, 213, 214, 360, 216, 370, 218, 219, 220, 221, 222, 223,
          257, 225, 226, 227, 228, 229, 230, 303, 269, 233, 281, 235, 279, 237, 238, 239,
          240, 326, 333, 243, 244, 245, 246, 361, 248, 371, 250, 251, 252, 253, 254, 312>>]
    @@ [n \in {11} |->
        <<128, 129, 130, 131, 132, 133, 134, 135, 136, 137, 138, 139, 140, 141, 142, 143,
          144, 145, 146, 147, 148, 149, 150, 151, 152, 153, 154, 155, 156, 157, 158, 159,
          160, 3585, 3586, 3587, 3588, 3589, 3590, 3591, 3592, 3593, 3594, 3595, 3596, 3597, 3598, 3599,
          3600, 3601, 3602, 3603, 3604, 3605, 3606, 3607, 3608, 3609, 3610, 3611, 3612, 3613, 3614, 3615,
          3616, 3617, 3618, 3619, 3620, 3621, 3622, 3623, 3624, 3625, 3626, 3627, 3628, 3629, 3630, 3631,
          3632, 3633, 3634, 3635, 3636, 3637, 3638, 3639, 3640, 3641, 3642, 0, 0, 0, 0, 3647,
          3648, 3649, 3650, 3651, 3652, 3653, 3654, 3655, 3656, 3657, 3658, 3659, 3660, 3661, 3662, 3663,
          3664, 3665, 3666, 3667, 3668, 3669, 3670, 3671, 3672, 3673, 3674, 3675, 0, 0, 0, 0>>]
    @@ [n \in {13} |->
        <<128, 129, 130, 131, 132, 133, 134, 135, 136, 137, 138, 139, 140, 141, 142, 143,
          144, 145, 146, 147, 148, 149, 150, 151, 152, 153, 154, 155, 156, 157, 158, 159,
          160, 8221, 162, 163, 164, 8222, 166, 167, 216, 169, 342, 171, 172, 173, 174, 198,
          176, 177, 178, 179, 8220, 181, 182, 183, 248, 185, 343, 187, 188, 189, 190, 230,
          260, 302, 256, 262, 196, 197, 280, 274, 268, 201, 377, 278, 290, 310, 298, 315,
          352, 323, 325, 211, 332, 213, 214, 215, 370, 321, 346, 362, 220, 379, 381, 223,
          261, 303, 257, 263, 228, 229, 281, 275, 269, 233, 378, 279, 291, 311, 299, 316,
          353, 324, 326, 243, 333, 245, 246, 247, 371, 322, 347, 363, 252, 380, 382, 8217>>]
    @@ [n \in {14} |->
        <<128, 129, 130, 131, 132, 133, 134, 135, 136, 137, 138, 139, 140, 141, 142, 143,
          144, 145, 146, 147, 148, 149, 150, 151, 152, 153, 154, 155, 156, 157, 158, 159,
          160, 7682, 7683, 163, 266, 267, 7690, 167, 7808, 169, 7810, 7691, 7922, 173, 174, 376,
          7710, 7711, 288, 289, 7744, 7745, 182, 7766, 7809, 7767, 7811, 7776, 7923, 7812, 7813, 7777,
          192, 193, 194, 195, 196, 197, 198, 199, 200, 201, 202, 203, 204, 205, 206, 207,
          372, 209, 210, 211, 212, 213, 214, 7786, 216, 217, 218, 219, 220, 221, 374, 223,
          224, 225, 226, 227, 228, 229, 230, 231, 232, 233, 234, 235, 236, 237, 238, 239,
          373, 241, 242, 243, 244, 245, 246, 7787, 248, 249, 250, 251, 252, 253, 375, 255>>]
    @@ [n \in {15} |->
        <<128, 129, 130, 131, 132, 133, 134, 135, 136, 137, 138, 139, 140, 141, 142, 143,
          144, 145, 146, 147, 148, 149, 150, 151, 152, 153, 154, 155, 156, 157, 158, 159,
          160, 161, 162, 163, 8364, 165, 352, 167, 353, 169, 170, 171, 172, 173, 174, 175,
          176, 177, 178, 179, 381, 181, 182, 183, 382, 185, 186, 187, 338, 339, 376, 191,
          192, 193, 194, 195, 196, 197, 198, 199, 200, 201, 202, 203, 204, 205, 206, 207,
          208, 209, 210, 211, 212, 213, 214, 215, 216, 217, 218, 219, 220, 221, 222, 223,
          224, 225, 226, 227, 228, 229, 230, 231, 232, 233, 234, 235, 236, 237, 238, 239,
          240, 241, 242, 243, 244, 245, 246, 247, 248, 249, 250, 251, 252, 253, 254, 255>>]
    @@ [n \in {16} |->
        <<128, 129, 130, 131, 132, 133, 134, 135, 136, 137, 138, 139, 140, 141, 142, 143,
          144, 145, 146, 147, 148, 149, 150, 151, 152, 153, 154, 155, 156, 157, 158, 159,
          160, 260, 261, 321, 8364, 8222, 352, 167, 353, 169, 536, 171, 377, 173, 378, 379,
          176, 177, 268, 322, 381, 8221, 182, 183, 382, 269, 537, 187, 338, 339, 376, 380,
          192, 193, 194, 258, 196, 262, 198, 199, 200, 201, 202, 203, 204, 205, 206, 207,
          272, 323, 210, 211, 212, 336, 214, 346, 368, 217, 218, 219, 220, 280, 538, 223,
          224, 225, 226, 259, 228, 263, 230, 231, 232, 233, 234, 235, 236, 237, 238, 239,
          273, 324, 242, 243, 244, 337, 246, 347, 369, 249, 250, 251, 252, 281, 539, 255>>]

xmltranscodetable_ISO8859 ==
    [n \in {2} |->
        <<0, 0, 1, 5, 2, 4, 0, 0, 0, 0, 0, 3, 0, 0, 0, 0,
          0, 0, 0, 0, 0, 0, 0, 0, 0, 0, 0, 0, 0, 0, 0, 0,
          0, 0, 0, 0, 0, 0, 0, 0, 0, 0, 0, 0, 0, 0, 0, 0,
          0, 0, 0, 0, 0, 0, 0, 0, 0, 0, 0, 0, 0, 0, 0, 0,
          0, 0, 0, 0, 0, 0, 0, 0, 0, 0, 0, 0, 0, 0, 0, 0,
          0, 0, 0, 0, 0, 0, 0, 0, 0, 0, 0, 0, 0, 0, 0, 0,
          0, 0, 0, 0, 0, 0, 0, 0, 0, 0, 0, 0, 0, 0, 0, 0,
          128, 129, 130, 131, 132, 133, 134, 135, 136, 137, 138, 139, 140, 141, 142, 143,
          144, 145, 146, 147, 148, 149, 150, 151, 152, 153, 154, 155, 156, 157, 158, 159,
          160, 0, 0, 0, 164, 0, 0, 167, 168, 0, 0, 0, 0, 173, 0, 0,
          176, 0, 0, 0, 180, 0, 0, 0, 184, 0, 0, 0, 0, 0, 0, 0,
          0, 0, 195, 227, 161, 177, 198, 230, 0, 0, 0, 0, 200, 232, 207, 239,
          208, 240, 0, 0, 0, 0, 0, 0, 202, 234, 204, 236, 0, 0, 0, 0,
          0, 0, 0, 0, 0, 0, 0, 0, 0, 0, 0, 0, 0, 0, 0, 0,
          0, 0, 0, 0, 0, 0, 0, 0, 0, 197, 229, 0, 0, 165, 181, 0,
          0, 0, 0, 0, 0, 0, 0, 183, 0, 0, 0, 0, 0, 0, 0, 0,
          0, 0, 0, 0, 0, 0, 0, 0, 162, 255, 0, 178, 0, 189, 0, 0,
          0, 0, 0, 0, 0, 0, 0, 0, 0, 0, 0, 0, 0, 0, 0, 0,
          0, 0, 0, 0, 0, 0, 0, 0, 0, 0, 0, 0, 0, 0, 0, 0,
          0, 163, 179, 209, 241, 0, 0, 210, 242, 0, 0, 0, 0, 0, 0, 0,
          213, 245, 0, 0, 192, 224, 0, 0, 216, 248, 166, 182, 0, 0, 170, 186,
          169, 185, 222, 254, 171, 187, 0, 0, 0, 0, 0, 0, 0, 0, 217, 249,
          219, 251, 0, 0, 0, 0, 0, 0, 0, 172, 188, 175, 191, 174, 190, 0,
          0, 193, 194, 0, 196, 0, 0, 199, 0, 201, 0, 203, 0, 205, 206, 0,
          0, 0, 0, 211, 212, 0, 214, 215, 0, 0, 218, 0, 220, 221, 0, 223,
          0, 225, 226, 0, 228, 0, 0, 231, 0, 233, 0, 235, 0, 237, 238, 0,
          0, 0, 0, 243, 244, 0, 246, 247, 0, 0, 250, 0, 252, 253, 0, 0>>]
    @@ [n \in {3} |->
        <<4, 0, 1, 6, 2, 5, 0, 0, 0, 0, 0, 3, 0, 0, 0, 0,
          0, 0, 0, 0, 0, 0, 0, 0, 0, 0, 0, 0, 0, 0, 0, 0,
          0, 0, 0, 0, 0, 0, 0, 0, 0, 0, 0, 0, 0, 0, 0, 0,
          0, 0, 0, 0, 0, 0, 0, 0, 0, 0, 0, 0, 0, 0, 0, 0,
          0, 0, 0, 0, 0, 0, 0, 0, 0, 0, 0, 0, 0, 0, 0, 0,
          0, 0, 0, 0, 0, 0, 0, 0, 0, 0, 0, 0, 0, 0, 0, 0,
          0, 0, 0, 0, 0, 0, 0, 0, 0, 0, 0, 0, 0, 0, 0, 0,
          128, 129, 130, 131, 132, 133, 134, 135, 136, 137, 138, 139, 140, 141, 142, 143,
          144, 145, 146, 147, 148, 149, 150, 151, 152, 153, 154, 155, 156, 157, 158, 159,
          160, 0, 0, 163, 164, 0, 0, 167, 168, 0, 0, 0, 0, 173, 0, 0,
          176, 0, 178, 179, 180, 181, 0, 183, 184, 0, 0, 0, 0, 189, 0, 0,
          0, 0, 0, 0, 0, 0, 0, 0, 198, 230, 197, 229, 0, 0, 0, 0,
          0, 0, 0, 0, 0, 0, 0, 0, 0, 0, 0, 0, 216, 248, 171, 187,
          213, 245, 0, 0, 166, 182, 161, 177, 0, 0, 0, 0, 0, 0, 0, 0,
          169, 185, 0, 0, 172, 188, 0, 0, 0, 0, 0, 0, 0, 0, 0, 0,
          0, 0, 0, 0, 0, 0, 0, 0, 0, 0, 0, 0, 0, 0, 0, 0,
          0, 0, 0, 0, 0, 0, 0, 0, 162, 255, 0, 0, 0, 0, 0, 0,
          0, 0, 0, 0, 0, 0, 0, 0, 0, 0, 0, 0, 0, 0, 0, 0,
          0, 0, 0, 0, 0, 0, 0, 0, 0, 0, 0, 0, 0, 0, 0, 0,
          240, 0, 0, 0, 0, 0, 0, 0, 0, 0, 0, 0, 0, 0, 0, 0,
          0, 0, 0, 0, 0, 0, 0, 0, 0, 0, 0, 0, 0, 0, 0, 0,
          0, 0, 0, 0, 0, 0, 0, 0, 0, 0, 0, 0, 0, 0, 0, 0,
          0, 0, 0, 0, 0, 0, 0, 0, 0, 0, 0, 0, 0, 0, 0, 0,
          0, 0, 0, 0, 0, 0, 0, 0, 0, 0, 0, 0, 0, 0, 0, 0,
          0, 0, 0, 0, 0, 0, 0, 0, 0, 0, 0, 0, 222, 254, 170, 186,
          0, 0, 0, 0, 0, 0, 0, 0, 0, 0, 0, 0, 221, 253, 0, 0,
          0, 0, 0, 0, 0, 0, 0, 0, 0, 0, 0, 175, 191, 0, 0, 0,
          192, 193, 194, 0, 196, 0, 0, 199, 200, 201, 202, 203, 204, 205, 206, 207,
          0, 209, 210, 211, 212, 0, 214, 215, 0, 217, 218, 219, 220, 0, 0, 223,
          224, 225, 226, 0, 228, 0, 0, 231, 232, 233, 234, 235, 236, 237, 238, 239,
          0, 241, 242, 243, 244, 0, 246, 247, 0, 249, 250, 251, 252, 0, 0, 0>>]
    @@ [n \in {4} |->
        <<0, 0, 1, 5, 2, 3, 0, 0, 0, 0, 0, 4, 0, 0, 0, 0,
          0, 0, 0, 0, 0, 0, 0, 0, 0, 0, 0, 0, 0, 0, 0, 0,
          0, 0, 0, 0, 0, 0, 0, 0, 0, 0, 0, 0, 0, 0, 0, 0,
          0, 0, 0, 0, 0, 0, 0, 0, 0, 0, 0, 0, 0, 0, 0, 0,
          0, 0, 0, 0, 0, 0, 0, 0, 0, 0, 0, 0, 0, 0, 0, 0,
          0, 0, 0, 0, 0, 0, 0, 0, 0, 0, 0, 0, 0, 0, 0, 0,
          0, 0, 0, 0, 0, 0, 0, 0, 0, 0, 0, 0, 0, 0, 0, 0,
          128, 129, 130, 131, 132, 133, 134, 135, 136, 137, 138, 139, 140, 141, 142, 143,
          144, 145, 146, 147, 148, 149, 150, 151, 152, 153, 154, 155, 156, 157, 158, 159,
          160, 0, 0, 0, 164, 0, 0, 167, 168, 0, 0, 0, 0, 173, 0, 175,
          176, 0, 0, 0, 180, 0, 0, 0, 184, 0, 0, 0, 0, 0, 0, 0,
          192, 224, 0, 0, 161, 177, 0, 0, 0, 0, 0, 0, 200, 232, 0, 0,
          208, 240, 170, 186, 0, 0, 204, 236, 202, 234, 0, 0, 0, 0, 0, 0,
          0, 0, 171, 187, 0, 0, 0, 0, 165, 181, 207, 239, 0, 0, 199, 231,
          0, 0, 0, 0, 0, 0, 211, 243, 162, 0, 0, 166, 182, 0, 0, 0,
          0, 0, 0, 0, 0, 209, 241, 0, 0, 0, 189, 191, 210, 242, 0, 0,
          0, 0, 0, 0, 0, 0, 163, 179, 0, 0, 0, 0, 0, 0, 0, 0,
          169, 185, 0, 0, 0, 0, 172, 188, 221, 253, 222, 254, 0, 0, 0, 0,
          0, 0, 217, 249, 0, 0, 0, 0, 0, 0, 0, 0, 0, 174, 190, 0,
          0, 0, 0, 0, 0, 0, 0, 183, 0, 0, 0, 0, 0, 0, 0, 0,
          0, 0, 0, 0, 0, 0, 0, 0, 0, 255, 0, 178, 0, 0, 0, 0,
          0, 0, 0, 0, 0, 0, 0, 0, 0, 0, 0, 0, 0, 0, 0, 0,
          0, 0, 0, 0, 0, 0, 0, 0, 0, 0, 0, 0, 0, 0, 0, 0,
          0, 193, 194, 195, 196, 197, 198, 0, 0, 201, 0, 203, 0, 205, 206, 0,
          0, 0, 0, 0, 212, 213, 214, 215, 216, 0, 218, 219, 220, 0, 0, 223,
          0, 225, 226, 227, 228, 229, 230, 0, 0, 233, 0, 235, 0, 237, 238, 0,
          0, 0, 0, 0, 244, 245, 246, 247, 248, 0, 250, 251, 252, 0, 0, 0>>]
    @@ [n \in {5} |->
        <<0, 0, 1, 0, 0, 0, 0, 0, 0, 0, 0, 0, 0, 0, 0, 0,
          2, 3, 0, 0, 0, 0, 0, 0, 0, 0, 0, 0, 0, 0, 0, 0,
          0, 0, 4, 0, 0, 0, 0, 0, 0, 0, 0, 0, 0, 0, 0, 0,
          0, 0, 0, 0, 0, 0, 0, 0, 0, 0, 0, 0, 0, 0, 0, 0,
          0, 0, 0, 0, 0, 0, 0, 0, 0, 0, 0, 0, 0, 0, 0, 0,
          0, 0, 0, 0, 0, 0, 0, 0, 0, 0, 0, 0, 0, 0, 0, 0,
          0, 0, 0, 0, 0, 0, 0, 0, 0, 0, 0, 0, 0, 0, 0, 0,
          128, 129, 130, 131, 132, 133, 134, 135, 136, 137, 138, 139, 140, 141, 142, 143,
          144, 145, 146, 147, 148, 149, 150, 151, 152, 153, 154, 155, 156, 157, 158, 159,
          160, 0, 0, 0, 0, 0, 0, 253, 0, 0, 0, 0, 0, 173, 0, 0,
          0, 0, 0, 0, 0, 0, 0, 0, 0, 0, 0, 0, 0, 0, 0, 0,
          0, 161, 162, 163, 164, 165, 166, 167, 168, 169, 170, 171, 172, 0, 174, 175,
          176, 177, 178, 179, 180, 181, 182, 183, 184, 185, 186, 187, 188, 189, 190, 191,
          192, 193, 194, 195, 196, 197, 198, 199, 200, 201, 202, 203, 204, 205, 206, 207,
          208, 209, 210, 211, 212, 213, 214, 215, 216, 217, 218, 219, 220, 221, 222, 223,
          224, 225, 226, 227, 228, 229, 230, 231, 232, 233, 234, 235, 236, 237, 238, 239,
          0, 241, 242, 243, 244, 245, 246, 247, 248, 249, 250, 251, 252, 0, 254, 255,
          0, 0, 0, 0, 0, 0, 0, 0, 0, 0, 0, 0, 0, 0, 0, 0,
          0, 0, 0, 0, 0, 0, 0, 0, 0, 0, 0, 0, 0, 0, 0, 0,
          0, 0, 0, 0, 5, 0, 0, 0, 0, 0, 0, 0, 0, 0, 0, 0,
          0, 0, 0, 0, 0, 0, 0, 0, 0, 0, 0, 0, 0, 0, 0, 0,
          0, 0, 0, 0, 0, 0, 0, 0, 0, 0, 0, 0, 0, 0, 0, 0,
          0, 0, 0, 0, 0, 0, 0, 0, 0, 0, 0, 0, 0, 0, 0, 0,
          0, 0, 0, 0, 0, 0, 0, 0, 0, 0, 0, 0, 0, 0, 0, 0,
          0, 0, 0, 0, 0, 0, 240, 0, 0, 0, 0, 0, 0, 0, 0, 0,
          0, 0, 0, 0, 0, 0, 0, 0, 0, 0, 0, 0, 0, 0, 0, 0,
          0, 0, 0, 0, 0, 0, 0, 0, 0, 0, 0, 0, 0, 0, 0, 0>>]
    @@ [n \in {6} |->
        <<2, 0, 1, 0, 0, 0, 0, 0, 0, 0, 0, 0, 0, 0, 0, 0,
          0, 0, 0, 0, 0, 0, 0, 0, 3, 4, 0, 0, 0, 0, 0, 0,
          0, 0, 0, 0, 0, 0, 0, 0, 0, 0, 0, 0, 0, 0, 0, 0,
          0, 0, 0, 0, 0, 0, 0, 0, 0, 0, 0, 0, 0, 0, 0, 0,
          0, 0, 0, 0, 0, 0, 0, 0, 0, 0, 0, 0, 0, 0, 0, 0,
          0, 0, 0, 0, 0, 0, 0, 0, 0, 0, 0, 0, 0, 0, 0, 0,
          0, 0, 0, 0, 0, 0, 0, 0, 0, 0, 0, 0, 0, 0, 0, 0,
          128, 129, 130, 131, 132, 133, 134, 135, 136, 137, 138, 139, 140, 141, 142, 143,
          144, 145, 146, 147, 148, 149, 150, 151, 152, 153, 154, 155, 156, 157, 158, 159,
          160, 0, 0, 0, 164, 0, 0, 0, 0, 0, 0, 0, 0, 173, 0, 0,
          0, 0, 0, 0, 0, 0, 0, 0, 0, 0, 0, 0, 0, 0, 0, 0,
          255, 0, 0, 0, 0, 0, 0, 0, 0, 0, 0, 0, 0, 0, 0, 0,
          0, 0, 0, 0, 0, 0, 0, 0, 0, 0, 0, 0, 0, 0, 0, 0,
          0, 0, 0, 0, 0, 0, 0, 0, 0, 0, 0, 0, 0, 0, 0, 0,
          0, 0, 0, 0, 0, 0, 0, 0, 0, 0, 0, 0, 0, 0, 0, 0,
          0, 0, 0, 0, 0, 0, 0, 0, 0, 0, 0, 0, 172, 0, 0, 0,
          0, 0, 0, 0, 0, 0, 0, 0, 0, 0, 0, 187, 0, 0, 0, 191,
          0, 193, 194, 195, 196, 197, 198, 199, 200, 201, 202, 203, 204, 205, 206, 207,
          208, 209, 210, 211, 212, 213, 214, 215, 216, 217, 218, 0, 0, 0, 0, 0,
          224, 225, 226, 227, 228, 229, 230, 231, 232, 233, 234, 235, 236, 237, 238, 239,
          240, 241, 242, 0, 0, 0, 0, 0, 0, 0, 0, 0, 0, 0, 0, 0,
          0, 0, 0, 0, 0, 0, 0, 0, 0, 0, 0, 0, 0, 0, 0, 0,
          0, 0, 0, 0, 0, 0, 0, 0, 0, 0, 0, 0, 0, 0, 0, 0>>]
    @@ [n \in {7} |->
        <<4, 0, 1, 0, 0, 0, 0, 0, 0, 0, 0, 0, 0, 0, 5, 6,
          0, 0, 0, 0, 0, 0, 0, 0, 0, 0, 0, 0, 0, 0, 0, 0,
          0, 0, 2, 0, 0, 0, 0, 0, 0, 0, 0, 0, 0, 0, 0, 0,
          0, 0, 0, 0, 0, 0, 0, 0, 0, 0, 0, 0, 0, 0, 0, 0,
          0, 0, 0, 0, 0, 0, 0, 0, 0, 0, 0, 0, 0, 0, 0, 0,
          0, 0, 0, 0, 0, 0, 0, 0, 0, 0, 0, 0, 0, 0, 0, 0,
          0, 0, 0, 0, 0, 0, 0, 0, 0, 0, 0, 0, 0, 0, 0, 0,
          128, 129, 130, 131, 132, 133, 134, 135, 136, 137, 138, 139, 140, 141, 142, 143,
          144, 145, 146, 147, 148, 149, 150, 151, 152, 153, 154, 155, 156, 157, 158, 159,
          160, 0, 0, 163, 0, 0, 166, 167, 168, 169, 0, 171, 172, 173, 0, 0,
          176, 177, 178, 179, 0, 0, 0, 183, 0, 0, 0, 187, 0, 189, 0, 0,
          3, 0, 0, 0, 0, 0, 0, 0, 0, 0, 0, 0, 0, 0, 0, 0,
          0, 0, 0, 0, 0, 0, 0, 0, 0, 0, 0, 0, 0, 0, 0, 0,
          0, 0, 0, 0, 0, 0, 0, 0, 0, 0, 0, 0, 0, 0, 0, 0,
          0, 0, 0, 0, 0, 0, 0, 0, 0, 0, 0, 0, 0, 0, 0, 0,
          0, 0, 0, 0, 0, 0, 0, 0, 0, 0, 0, 0, 0, 0, 0, 0,
          0, 0, 0, 0, 0, 175, 0, 0, 161, 162, 0, 0, 0, 0, 0, 0,
          0, 0, 0, 0, 0, 0, 0, 0, 0, 0, 0, 0, 0, 0, 0, 0,
          0, 0, 0, 0, 0, 0, 0, 0, 0, 0, 0, 0, 0, 0, 0, 0,
          255, 0, 0, 0, 0, 0, 0, 0, 0, 0, 0, 0, 0, 0, 0, 0,
          0, 0, 0, 0, 0, 0, 0, 0, 0, 0, 0, 0, 0, 0, 0, 0,
          0, 0, 0, 0, 0, 0, 0, 0, 0, 0, 0, 0, 0, 0, 0, 0,
          0, 0, 0, 0, 0, 0, 0, 0, 0, 0, 0, 0, 0, 0, 0, 0,
          0, 0, 0, 0, 180, 181, 182, 0, 184, 185, 186, 0, 188, 0, 190, 191,
          192, 193, 194, 195, 196, 197, 198, 199, 200, 201, 202, 203, 204, 205, 206, 207,
          208, 209, 0, 211, 212, 213, 214, 215, 216, 217, 218, 219, 220, 221, 222, 223,
          224, 225, 226, 227, 228, 229, 230, 231, 232, 233, 234, 235, 236, 237, 238, 239,
          240, 241, 242, 243, 244, 245, 246, 247, 248, 249, 250, 251, 252, 253, 254, 0,
          0, 0, 0, 0, 0, 0, 0, 0, 0, 0, 0, 0, 0, 0, 0, 0,
          0, 0, 0, 0, 0, 0, 0, 0, 0, 0, 0, 0, 0, 0, 0, 0,
          0, 0, 0, 0, 0, 0, 0, 0, 0, 0, 0, 0, 0, 0, 0, 0>>]
    @@ [n \in {8} |->
        <<2, 0, 1, 3, 0, 0, 0, 0, 0, 0, 0, 0, 0, 0, 0, 0,
          0, 0, 0, 0, 0, 0, 0, 6, 0, 0, 0, 0, 0, 0, 0, 0,
          0, 0, 4, 0, 0, 0, 0, 0, 0, 0, 0, 0, 0, 0, 0, 0,
          0, 0, 0, 0, 0, 0, 0, 0, 0, 0, 0, 0, 0, 0, 0, 0,
          0, 0, 0, 0, 0, 0, 0, 0, 0, 0, 0, 0, 0, 0, 0, 0,
          0, 0, 0, 0, 0, 0, 0, 0, 0, 0, 0, 0, 0, 0, 0, 0,
          0, 0, 0, 0, 0, 0, 0, 0, 0, 0, 0, 0, 0, 0, 0, 0,
          128, 129, 130, 131, 132, 133, 134, 135, 136, 137, 138, 139, 140, 141, 142, 143,
          144, 145, 146, 147, 148, 149, 150, 151, 152, 153, 154, 155, 156, 157, 158, 159,
          160, 0, 162, 163, 164, 165, 166, 167, 168, 169, 0, 171, 172, 173, 174, 175,
          176, 177, 178, 179, 180, 181, 182, 183, 184, 185, 0, 187, 188, 189, 190, 0,
          255, 0, 0, 0, 0, 0, 0, 0, 0, 0, 0, 0, 0, 0, 0, 0,
          0, 0, 0, 0, 0, 0, 0, 0, 0, 0, 0, 0, 0, 0, 0, 0,
          0, 0, 0, 0, 0, 0, 0, 0, 0, 0, 0, 0, 0, 0, 0, 0,
          0, 0, 0, 0, 0, 0, 0, 0, 0, 0, 0, 0, 0, 0, 0, 0,
          0, 0, 0, 0, 0, 0, 0, 0, 0, 0, 0, 0, 0, 0, 0, 0,
          0, 0, 0, 0, 0, 0, 0, 170, 0, 0, 0, 0, 0, 0, 0, 0,
          0, 0, 0, 0, 0, 0, 0, 0, 0, 0, 0, 0, 0, 0, 0, 0,
          0, 0, 0, 0, 0, 0, 0, 186, 0, 0, 0, 0, 0, 0, 0, 0,
          5, 0, 0, 0, 0, 0, 0, 0, 0, 0, 0, 0, 0, 0, 0, 0,
          0, 0, 0, 0, 0, 0, 0, 0, 0, 0, 0, 0, 0, 0, 0, 0,
          0, 0, 0, 0, 0, 0, 0, 0, 0, 0, 0, 0, 0, 0, 0, 0,
          0, 0, 0, 0, 0, 0, 0, 0, 0, 0, 0, 0, 0, 0, 0, 0,
          0, 0, 0, 0, 0, 0, 0, 0, 0, 0, 0, 0, 0, 0, 253, 254,
          0, 0, 0, 0, 0, 0, 0, 223, 0, 0, 0, 0, 0, 0, 0, 0,
          0, 0, 0, 0, 0, 0, 0, 0, 0, 0, 0, 0, 0, 0, 0, 0,
          0, 0, 0, 0, 0, 0, 0, 0, 0, 0, 0, 0, 0, 0, 0, 0,
          0, 0, 0, 0, 0, 0, 0, 0, 0, 0, 0, 0, 0, 0, 0, 0,
          224, 225, 226, 227, 228, 229, 230, 231, 232, 233, 234, 235, 236, 237, 238, 239,
          240, 241, 242, 243, 244, 245, 246, 247, 248, 249, 250, 0, 0, 0, 0, 0,
          0, 0, 0, 0, 0, 0, 0, 0, 0, 0, 0, 0, 0, 0, 0, 0>>]
    @@ [n \in {9} |->
        <<0, 0, 1, 2, 3, 4, 0, 0, 0, 0, 0, 0, 0, 0, 0, 0,
          0, 0, 0, 0, 0, 0, 0, 0, 0, 0, 0, 0, 0, 0, 0, 0,
          0, 0, 0, 0, 0, 0, 0, 0, 0, 0, 0, 0, 0, 0, 0, 0,
          0, 0, 0, 0, 0, 0, 0, 0, 0, 0, 0, 0, 0, 0, 0, 0,
          0, 0, 0, 0, 0, 0, 0, 0, 0, 0, 0, 0, 0, 0, 0, 0,
          0, 0, 0, 0, 0, 0, 0, 0, 0, 0, 0, 0, 0, 0, 0, 0,
          0, 0, 0, 0, 0, 0, 0, 0, 0, 0, 0, 0, 0, 0, 0, 0,
          128, 129, 130, 131, 132, 133, 134, 135, 136, 137, 138, 139, 140, 141, 142, 143,
          144, 145, 146, 147, 148, 149, 150, 151, 152, 153, 154, 155, 156, 157, 158, 159,
          160, 161, 162, 163, 164, 165, 166, 167, 168, 169, 170, 171, 172, 173, 174, 175,
          176, 177, 178, 179, 180, 181, 182, 183, 184, 185, 186, 187, 188, 189, 190, 191,
          192, 193, 194, 195, 196, 197, 198, 199, 200, 201, 202, 203, 204, 205, 206, 207,
          0, 209, 210, 211, 212, 213, 214, 215, 216, 217, 218, 219, 220, 0, 0, 223,
          224, 225, 226, 227, 228, 229, 230, 231, 232, 233, 234, 235, 236, 237, 238, 239,
          0, 241, 242, 243, 244, 245, 246, 247, 248, 249, 250, 251, 252, 0, 0, 255,
          0, 0, 0, 0, 0, 0, 0, 0, 0, 0, 0, 0, 0, 0, 0, 0,
          0, 0, 0, 0, 0, 0, 0, 0, 0, 0, 0, 0, 0, 0, 208, 240,
          0, 0, 0, 0, 0, 0, 0, 0, 0, 0, 0, 0, 0, 0, 0, 0,
          221, 253, 0, 0, 0, 0, 0, 0, 0, 0, 0, 0, 0, 0, 0, 0,
          0, 0, 0, 0, 0, 0, 0, 0, 0, 0, 0, 0, 0, 0, 0, 0,
          0, 0, 0, 0, 0, 0, 0, 0, 0, 0, 0, 0, 0, 0, 222, 254,
          0, 0, 0, 0, 0, 0, 0, 0, 0, 0, 0, 0, 0, 0, 0, 0,
          0, 0, 0, 0, 0, 0, 0, 0, 0, 0, 0, 0, 0, 0, 0, 0>>]
    @@ [n \in {10} |->
        <<0, 0, 1, 6, 2, 3, 0, 0, 0, 0, 0, 0, 0, 0, 0, 0,
          0, 0, 0, 0, 0, 0, 0, 0, 0, 0, 0, 0, 0, 0, 0, 0,
          0, 0, 4, 0, 0, 0, 0, 0, 0, 0, 0, 0, 0, 0, 0, 0,
          0, 0, 0, 0, 0, 0, 0, 0, 0, 0, 0, 0, 0, 0, 0, 0,
          0, 0, 0, 0, 0, 0, 0, 0, 0, 0, 0, 0, 0, 0, 0, 0,
          0, 0, 0, 0, 0, 0, 0, 0, 0, 0, 0, 0, 0, 0, 0, 0,
          0, 0, 0, 0, 0, 0, 0, 0, 0, 0, 0, 0, 0, 0, 0, 0,
          128, 129, 130, 131, 132, 133, 134, 135, 136, 137, 138, 139, 140, 141, 142, 143,
          144, 145, 146, 147, 148, 149, 150, 151, 152, 153, 154, 155, 156, 157, 158, 159,
          160, 0, 0, 0, 0, 0, 0, 167, 0, 0, 0, 0, 0, 173, 0, 0,
          176, 0, 0, 0, 0, 0, 0, 183, 0, 0, 0, 0, 0, 0, 0, 0,
          192, 224, 0, 0, 161, 177, 0, 0, 0, 0, 0, 0, 200, 232, 0, 0,
          169, 185, 162, 178, 0, 0, 204, 236, 202, 234, 0, 0, 0, 0, 0, 0,
          0, 0, 163, 179, 0, 0, 0, 0, 165, 181, 164, 180, 0, 0, 199, 231,
          0, 0, 0, 0, 0, 0, 166, 182, 255, 0, 0, 168, 184, 0, 0, 0,
          0, 0, 0, 0, 0, 209, 241, 0, 0, 0, 175, 191, 210, 242, 0, 0,
          0, 0, 0, 0, 0, 0, 0, 0, 0, 0, 0, 0, 0, 0, 0, 0,
          170, 186, 0, 0, 0, 0, 171, 187, 215, 247, 174, 190, 0, 0, 0, 0,
          0, 0, 217, 249, 0, 0, 0, 0, 0, 0, 0, 0, 0, 172, 188, 0,
          5, 0, 0, 0, 0, 0, 0, 0, 0, 0, 0, 0, 0, 0, 0, 0,
          0, 0, 0, 0, 0, 0, 0, 0, 0, 0, 0, 0, 0, 0, 0, 0,
          0, 0, 0, 0, 0, 0, 0, 0, 0, 0, 0, 0, 0, 0, 0, 0,
          0, 0, 0, 0, 0, 0, 0, 0, 0, 0, 0, 0, 0, 0, 0, 0,
          0, 0, 0, 0, 0, 0, 0, 0, 0, 0, 0, 0, 0, 0, 0, 0,
          0, 0, 0, 0, 0, 189, 0, 0, 0, 0, 0, 0, 0, 0, 0, 0,
          0, 0, 0, 0, 0, 0, 0, 0, 0, 0, 0, 0, 0, 0, 0, 0,
          0, 0, 0, 0, 0, 0, 0, 0, 0, 0, 0, 0, 0, 0, 0, 0,
          0, 193, 194, 195, 196, 197, 198, 0, 0, 201, 0, 203, 0, 205, 206, 207,
          208, 0, 0, 211, 212, 213, 214, 0, 216, 0, 218, 219, 220, 221, 222, 223,
          0, 225, 226, 227, 228, 229, 230, 0, 0, 233, 0, 235, 0, 237, 238, 239,
          240, 0, 0, 243, 244, 245, 246, 0, 248, 0, 250, 251, 252, 253, 254, 0>>]
    @@ [n \in {11} |->
        <<4, 0, 1, 0, 0, 0, 0, 0, 0, 0, 0, 0, 0, 0, 0, 0,
          0, 0, 0, 0, 0, 0, 0, 0, 0, 0, 0, 0, 0, 0, 0, 0,
          2, 0, 0, 0, 0, 0, 0, 0, 0, 0, 0, 0, 0, 0, 0, 0,
          0, 0, 0, 0, 0, 0, 0, 0, 0, 0, 0, 0, 0, 0, 0, 0,
          0, 0, 0, 0, 0, 0, 0, 0, 0, 0, 0, 0, 0, 0, 0, 0,
          0, 0, 0, 0, 0, 0, 0, 0, 0, 0, 0, 0, 0, 0, 0, 0,
          0, 0, 0, 0, 0, 0, 0, 0, 0, 0, 0, 0, 0, 0, 0, 0,
          128, 129, 130, 131, 132, 133, 134, 135, 136, 137, 138, 139, 140, 141, 142, 143,
          144, 145, 146, 147, 148, 149, 150, 151, 152, 153, 154, 155, 156, 157, 158, 159,
          160, 0, 0, 0, 0, 0, 0, 0, 0, 0, 0, 0, 0, 0, 0, 0,
          0, 0, 0, 0, 0, 0, 0, 0, 0, 0, 0, 0, 0, 0, 0, 0,
          0, 0, 0, 0, 0, 0, 0, 0, 0, 0, 0, 0, 0, 0, 0, 0,
          0, 0, 0, 0, 0, 0, 0, 0, 0, 0, 0, 0, 0, 0, 0, 0,
          0, 0, 0, 0, 0, 0, 0, 0, 0, 0, 0, 0, 0, 0, 0, 0,
          0, 0, 0, 0, 0, 0, 0, 0, 3, 5, 0, 0, 0, 0, 0, 0,
          0, 161, 162, 163, 164, 165, 166, 167, 168, 169, 170, 171, 172, 173, 174, 175,
          176, 177, 178, 179, 180, 181, 182, 183, 184, 185, 186, 187, 188, 189, 190, 191,
          192, 193, 194, 195, 196, 197, 198, 199, 200, 201, 202, 203, 204, 205, 206, 207,
          208, 209, 210, 211, 212, 213, 214, 215, 216, 217, 218, 0, 0, 0, 0, 223,
          255, 0, 0, 0, 0, 0, 0, 0, 0, 0, 0, 0, 0, 0, 0, 0,
          0, 0, 0, 0, 0, 0, 0, 0, 0, 0, 0, 0, 0, 0, 0, 0,
          0, 0, 0, 0, 0, 0, 0, 0, 0, 0, 0, 0, 0, 0, 0, 0,
          0, 0, 0, 0, 0, 0, 0, 0, 0, 0, 0, 0, 0, 0, 0, 0,
          224, 225, 226, 227, 228, 229, 230, 231, 232, 233, 234, 235, 236, 237, 238, 239,
          240, 241, 242, 243, 244, 245, 246, 247, 248, 249, 250, 251, 0, 0, 0, 0,
          0, 0, 0, 0, 0, 0, 0, 0, 0, 0, 0, 0, 0, 0, 0, 0,
          0, 0, 0, 0, 0, 0, 0, 0, 0, 0, 0, 0, 0, 0, 0, 0>>]
    @@ [n \in {13} |->
        <<0, 0, 1, 4, 6, 5, 0, 0, 0, 0, 0, 0, 0, 0, 0, 0,
          0, 0, 0, 0, 0, 0, 0, 0, 0, 0, 0, 0, 0, 0, 0, 0,
          0, 0, 2, 0, 0, 0, 0, 0, 0, 0, 0, 0, 0, 0, 0, 0,
          0, 0, 0, 0, 0, 0, 0, 0, 0, 0, 0, 0, 0, 0, 0, 0,
          0, 0, 0, 0, 0, 0, 0, 0, 0, 0, 0, 0, 0, 0, 0, 0,
          0, 0, 0, 0, 0, 0, 0, 0, 0, 0, 0, 0, 0, 0, 0, 0,
          0, 0, 0, 0, 0, 0, 0, 0, 0, 0, 0, 0, 0, 0, 0, 0,
          128, 129, 130, 131, 132, 133, 134, 135, 136, 137, 138, 139, 140, 141, 142, 143,
          144, 145, 146, 147, 148, 149, 150, 151, 152, 153, 154, 155, 156, 157, 158, 159,
          160, 0, 162, 163, 164, 0, 166, 167, 0, 169, 0, 171, 172, 173, 174, 0,
          176, 177, 178, 179, 0, 181, 182, 183, 0, 185, 0, 187, 188, 189, 190, 0,
          3, 0, 0, 0, 0, 0, 0, 0, 0, 0, 0, 0, 0, 0, 0, 0,
          0, 0, 0, 0, 0, 0, 0, 0, 0, 0, 0, 0, 0, 0, 0, 0,
          0, 0, 0, 0, 0, 0, 0, 0, 0, 0, 0, 0, 0, 0, 0, 0,
          0, 0, 0, 0, 0, 0, 0, 0, 0, 0, 0, 0, 0, 0, 0, 0,
          0, 0, 0, 0, 0, 0, 0, 0, 0, 0, 0, 0, 0, 0, 0, 0,
          0, 0, 0, 0, 0, 0, 0, 0, 0, 255, 0, 0, 180, 161, 165, 0,
          0, 0, 0, 0, 0, 0, 0, 0, 0, 0, 0, 0, 0, 0, 0, 0,
          0, 0, 0, 0, 0, 0, 0, 0, 0, 0, 0, 0, 0, 0, 0, 0,
          0, 0, 0, 0, 196, 197, 175, 0, 0, 201, 0, 0, 0, 0, 0, 0,
          0, 0, 0, 211, 0, 213, 214, 215, 168, 0, 0, 0, 220, 0, 0, 223,
          0, 0, 0, 0, 228, 229, 191, 0, 0, 233, 0, 0, 0, 0, 0, 0,
          0, 0, 0, 243, 0, 245, 246, 247, 184, 0, 0, 0, 252, 0, 0, 0,
          0, 217, 249, 209, 241, 210, 242, 0, 0, 0, 0, 0, 212, 244, 0, 0,
          0, 0, 0, 0, 0, 0, 170, 186, 0, 0, 218, 250, 0, 0, 0, 0,
          208, 240, 0, 0, 0, 0, 0, 0, 0, 0, 219, 251, 0, 0, 0, 0,
          0, 0, 216, 248, 0, 0, 0, 0, 0, 202, 234, 221, 253, 222, 254, 0,
          194, 226, 0, 0, 192, 224, 195, 227, 0, 0, 0, 0, 200, 232, 0, 0,
          0, 0, 199, 231, 0, 0, 203, 235, 198, 230, 0, 0, 0, 0, 0, 0,
          0, 0, 204, 236, 0, 0, 0, 0, 0, 0, 206, 238, 0, 0, 193, 225,
          0, 0, 0, 0, 0, 0, 205, 237, 0, 0, 0, 207, 239, 0, 0, 0>>]
    @@ [n \in {14} |->
        <<0, 0, 1, 9, 4, 7, 0, 0, 0, 0, 0, 0, 0, 0, 0, 0,
          0, 0, 0, 0, 0, 0, 0, 0, 0, 0, 0, 0, 0, 0, 0, 0,
          0, 2, 0, 0, 0, 0, 0, 0, 0, 0, 0, 0, 0, 0, 0, 0,
          0, 0, 0, 0, 0, 0, 0, 0, 0, 0, 0, 0, 0, 0, 0, 0,
          0, 0, 0, 0, 0, 0, 0, 0, 0, 0, 0, 0, 0, 0, 0, 0,
          0, 0, 0, 0, 0, 0, 0, 0, 0, 0, 0, 0, 0, 0, 0, 0,
          0, 0, 0, 0, 0, 0, 0, 0, 0, 0, 0, 0, 0, 0, 0, 0,
          128, 129, 130, 131, 132, 133, 134, 135, 136, 137, 138, 139, 140, 141, 142, 143,
          144, 145, 146, 147, 148, 149, 150, 151, 152, 153, 154, 155, 156, 157, 158, 159,
          160, 0, 0, 163, 0, 0, 0, 167, 0, 169, 0, 0, 0, 173, 174, 0,
          0, 0, 0, 0, 0, 0, 182, 0, 0, 0, 0, 0, 0, 0, 0, 0,
          0, 0, 0, 0, 0, 0, 0, 0, 0, 0, 0, 0, 0, 0, 0, 0,
          0, 0, 0, 0, 0, 0, 0, 0, 0, 0, 0, 0, 0, 0, 0, 0,
          0, 0, 0, 0, 0, 0, 0, 0, 0, 0, 0, 0, 0, 0, 0, 0,
          0, 0, 0, 0, 0, 0, 0, 0, 3, 8, 5, 6, 0, 0, 0, 0,
          0, 0, 161, 162, 0, 0, 0, 0, 0, 0, 166, 171, 0, 0, 0, 0,
          0, 0, 0, 0, 0, 0, 0, 0, 0, 0, 0, 0, 0, 0, 176, 177,
          0, 0, 0, 0, 0, 0, 0, 0, 0, 0, 0, 0, 0, 0, 0, 0,
          0, 0, 0, 0, 0, 0, 0, 0, 0, 0, 0, 0, 0, 0, 0, 0,
          0, 0, 0, 0, 0, 0, 0, 0, 0, 0, 164, 165, 0, 0, 0, 0,
          0, 0, 0, 0, 0, 0, 0, 0, 0, 0, 0, 0, 0, 0, 0, 0,
          178, 179, 0, 0, 0, 0, 0, 0, 0, 0, 0, 0, 0, 0, 0, 0,
          0, 0, 0, 0, 0, 0, 0, 0, 0, 0, 0, 0, 0, 0, 0, 0,
          168, 184, 170, 186, 189, 190, 0, 0, 0, 0, 0, 0, 0, 0, 0, 0,
          0, 0, 0, 0, 0, 0, 0, 0, 0, 0, 0, 0, 0, 0, 0, 0,
          0, 0, 0, 0, 0, 0, 0, 0, 0, 0, 0, 0, 0, 0, 0, 0,
          0, 0, 0, 0, 0, 0, 0, 0, 0, 0, 0, 0, 0, 0, 0, 0,
          0, 0, 0, 0, 0, 0, 0, 0, 0, 0, 0, 0, 0, 0, 0, 0,
          0, 0, 0, 0, 0, 0, 0, 0, 0, 0, 0, 0, 0, 0, 0, 0,
          0, 0, 0, 0, 0, 0, 0, 0, 0, 0, 0, 0, 0, 0, 0, 0,
          0, 0, 172, 188, 0, 0, 0, 0, 0, 0, 0, 0, 0, 0, 0, 0,
          0, 0, 0, 0, 0, 0, 0, 0, 0, 0, 0, 0, 0, 0, 0, 0,
          0, 0, 0, 0, 0, 0, 0, 0, 0, 0, 0, 0, 0, 0, 0, 0,
          0, 0, 0, 0, 0, 0, 0, 0, 0, 0, 0, 0, 0, 0, 0, 0,
          0, 0, 0, 0, 208, 240, 222, 254, 175, 0, 0, 0, 0, 0, 0, 0,
          180, 181, 0, 0, 0, 0, 0, 0, 0, 0, 0, 0, 0, 0, 0, 0,
          0, 0, 0, 0, 0, 0, 183, 185, 0, 0, 0, 0, 0, 0, 0, 0,
          187, 191, 0, 0, 0, 0, 0, 0, 0, 0, 215, 247, 0, 0, 0, 0,
          0, 0, 0, 0, 0, 0, 0, 0, 0, 0, 0, 0, 0, 0, 0, 0,
          192, 193, 194, 195, 196, 197, 198, 199, 200, 201, 202, 203, 204, 205, 206, 207,
          0, 209, 210, 211, 212, 213, 214, 0, 216, 217, 218, 219, 220, 221, 0, 223,
          224, 225, 226, 227, 228, 229, 230, 231, 232, 233, 234, 235, 236, 237, 238, 239,
          0, 241, 242, 243, 244, 245, 246, 0, 248, 249, 250, 251, 252, 253, 0, 255>>]
    @@ [n \in {15} |->
        <<0, 0, 1, 5, 0, 4, 0, 0, 0, 0, 0, 0, 0, 0, 0, 0,
          0, 0, 0, 0, 0, 0, 0, 0, 0, 0, 0, 0, 0, 0, 0, 0,
          0, 0, 2, 0, 0, 0, 0, 0, 0, 0, 0, 0, 0, 0, 0, 0,
          0, 0, 0, 0, 0, 0, 0, 0, 0, 0, 0, 0, 0, 0, 0, 0,
          0, 0, 0, 0, 0, 0, 0, 0, 0, 0, 0, 0, 0, 0, 0, 0,
          0, 0, 0, 0, 0, 0, 0, 0, 0, 0, 0, 0, 0, 0, 0, 0,
          0, 0, 0, 0, 0, 0, 0, 0, 0, 0, 0, 0, 0, 0, 0, 0,
          128, 129, 130, 131, 132, 133, 134, 135, 136, 137, 138, 139, 140, 141, 142, 143,
          144, 145, 146, 147, 148, 149, 150, 151, 152, 153, 154, 155, 156, 157, 158, 159,
          160, 161, 162, 163, 0, 165, 0, 167, 0, 169, 170, 171, 172, 173, 174, 175,
          176, 177, 178, 179, 0, 181, 182, 183, 0, 185, 186, 187, 0, 0, 0, 191,
          0, 0, 3, 0, 0, 0, 0, 0, 0, 0, 0, 0, 0, 0, 0, 0,
          0, 0, 0, 0, 0, 0, 0, 0, 0, 0, 0, 0, 0, 0, 0, 0,
          0, 0, 0, 0, 0, 0, 0, 0, 0, 0, 0, 0, 0, 0, 0, 0,
          0, 0, 0, 0, 0, 0, 0, 0, 0, 0, 0, 0, 0, 0, 0, 0,
          0, 0, 0, 0, 0, 0, 0, 0, 0, 0, 0, 0, 0, 0, 0, 0,
          0, 0, 0, 0, 0, 0, 0, 0, 0, 0, 0, 0, 0, 0, 0, 0,
          0, 0, 0, 0, 0, 0, 0, 0, 0, 0, 0, 0, 164, 0, 0, 0,
          0, 0, 0, 0, 0, 0, 0, 0, 0, 0, 0, 0, 0, 0, 0, 0,
          0, 0, 0, 0, 0, 0, 0, 0, 0, 0, 0, 0, 0, 0, 0, 0,
          0, 0, 188, 189, 0, 0, 0, 0, 0, 0, 0, 0, 0, 0, 0, 0,
          166, 168, 0, 0, 0, 0, 0, 0, 0, 0, 0, 0, 0, 0, 0, 0,
          0, 0, 0, 0, 0, 0, 0, 0, 190, 0, 0, 0, 0, 180, 184, 0,
          192, 193, 194, 195, 196, 197, 198, 199, 200, 201, 202, 203, 204, 205, 206, 207,
          208, 209, 210, 211, 212, 213, 214, 215, 216, 217, 218, 219, 220, 221, 222, 223,
          224, 225, 226, 227, 228, 229, 230, 231, 232, 233, 234, 235, 236, 237, 238, 239,
          240, 241, 242, 243, 244, 245, 246, 247, 248, 249, 250, 251, 252, 253, 254, 255>>]
    @@ [n \in {16} |->
        <<0, 0, 1, 8, 2, 3, 0, 0, 7, 0, 0, 0, 0, 0, 0, 0,
          0, 0, 0, 0, 0, 0, 0, 0, 0, 0, 0, 0, 0, 0, 0, 0,
          0, 0, 4, 0, 0, 0, 0, 0, 0, 0, 0, 0, 0, 0, 0, 0,
          0, 0, 0, 0, 0, 0, 0, 0, 0, 0, 0, 0, 0, 0, 0, 0,
          0, 0, 0, 0, 0, 0, 0, 0, 0, 0, 0, 0, 0, 0, 0, 0,
          0, 0, 0, 0, 0, 0, 0, 0, 0, 0, 0, 0, 0, 0, 0, 0,
          0, 0, 0, 0, 0, 0, 0, 0, 0, 0, 0, 0, 0, 0, 0, 0,
          128, 129, 130, 131, 132, 133, 134, 135, 136, 137, 138, 139, 140, 141, 142, 143,
          144, 145, 146, 147, 148, 149, 150, 151, 152, 153, 154, 155, 156, 157, 158, 159,
          160, 0, 0, 0, 0, 0, 0, 167, 0, 169, 0, 171, 0, 173, 0, 0,
          176, 177, 0, 0, 0, 0, 182, 183, 0, 0, 0, 187, 0, 0, 0, 0,
          0, 0, 195, 227, 161, 162, 197, 229, 0, 0, 0, 0, 178, 185, 0, 0,
          208, 240, 0, 0, 0, 0, 0, 0, 221, 253, 0, 0, 0, 0, 0, 0,
          0, 0, 0, 0, 0, 0, 0, 0, 0, 0, 0, 0, 0, 0, 0, 0,
          0, 0, 0, 0, 0, 0, 0, 0, 0, 0, 0, 0, 0, 0, 0, 0,
          0, 163, 179, 209, 241, 0, 0, 0, 0, 0, 0, 0, 0, 0, 0, 0,
          213, 245, 188, 189, 0, 0, 0, 0, 0, 0, 215, 247, 0, 0, 0, 0,
          166, 168, 0, 0, 0, 0, 0, 0, 0, 0, 0, 0, 0, 0, 0, 0,
          216, 248, 0, 0, 0, 0, 0, 0, 190, 172, 174, 175, 191, 180, 184, 0,
          6, 0, 5, 0, 0, 0, 0, 0, 0, 0, 0, 0, 0, 0, 0, 0,
          0, 0, 0, 0, 0, 0, 0, 0, 0, 0, 0, 0, 0, 0, 0, 0,
          0, 0, 0, 0, 0, 0, 0, 0, 0, 0, 0, 0, 0, 0, 0, 0,
          0, 0, 0, 0, 0, 0, 0, 0, 0, 0, 0, 0, 0, 0, 0, 0,
          0, 0, 0, 0, 0, 0, 0, 0, 0, 0, 0, 0, 0, 0, 0, 0,
          0, 0, 0, 0, 0, 0, 0, 0, 0, 0, 0, 0, 0, 0, 0, 0,
          0, 0, 0, 0, 0, 0, 0, 0, 0, 0, 0, 0, 164, 0, 0, 0,
          0, 0, 0, 0, 0, 0, 0, 0, 0, 0, 0, 0, 0, 0, 0, 0,
          0, 0, 0, 0, 0, 0, 0, 0, 0, 0, 0, 0, 0, 0, 0, 0,
          0, 0, 0, 0, 0, 0, 0, 0, 0, 0, 0, 0, 0, 181, 165, 0,
          0, 0, 0, 0, 0, 0, 0, 0, 0, 0, 0, 0, 0, 0, 0, 0,
          0, 0, 0, 0, 0, 0, 0, 0, 0, 0, 0, 0, 0, 0, 0, 0,
          0, 0, 0, 0, 0, 0, 0, 0, 0, 0, 0, 0, 0, 0, 0, 0,
          0, 0, 0, 0, 0, 0, 0, 0, 170, 186, 222, 254, 0, 0, 0, 0,
          0, 0, 0, 0, 0, 0, 0, 0, 0, 0, 0, 0, 0, 0, 0, 0,
          0, 0, 0, 0, 0, 0, 0, 0, 0, 0, 0, 0, 0, 0, 0, 0,
          192, 193, 194, 0, 196, 0, 198, 199, 200, 201, 202, 203, 204, 205, 206, 207,
          0, 0, 210, 211, 212, 0, 214, 0, 0, 217, 218, 219, 220, 0, 0, 223,
          224, 225, 226, 0, 228, 0, 230, 231, 232, 233, 234, 235, 236, 237, 238, 239,
          0, 0, 242, 243, 244, 0, 246, 0, 0, 249, 250, 251, 252, 0, 0, 255>>]
(***************************************************************************)
(* d = xlattable [48 + c + xlattable [d] * 64] for a two-byte sequence:    *)
(* d the 5 bits of the lead byte, c the 6 bits of the trailing byte.       *)
(***************************************************************************)
Transcode2_Flat(xlattable, d, c) == xlattable[48 + c + 1]

Transcode2(xlattable, d, c) == xlattable[48 + c + xlattable[d + 1] * 64 + 1]

(***************************************************************************)
(* UTF8ToISO8859x.  i is in - instart at the head of the loop, where       *)
(* processed equals in; out the bytes stored so far.  The function does    *)
(* not look at *outlen.                                                    *)
(***************************************************************************)
UTF8ToISO8859x(outlen, in, init, xlattable) ==
    LET Stop(ret, out, processed) == Res(ret, out, Len(out), processed)
        Trailing(k) == in[k] \div 64 = 2
        RECURSIVE loop(_, _)
        Store(i, n, out, d) ==
            IF d = 0 THEN Stop(XML_ENC_ERR_INPUT, out, i)
            ELSE loop(i + n, Append(out, d))
        Three(i, out, d, c1, c2) ==
            Store(i, 3, out,
                  xlattable[48 + c2
                            + xlattable[48 + c1 + xlattable[32 + d + 1] * 64 + 1] * 64
                            + 1])
        Char(i, out, d) ==
            IF d < 128 THEN loop(i + 1, Append(out, d))
            ELSE IF d < 192 THEN Stop(XML_ENC_ERR_INPUT, out, i)
            ELSE IF d < 224
            THEN IF ~(i + 1 < Len(in)) THEN Stop(XML_ENC_ERR_PARTIAL, out, i)
                 ELSE IF ~Trailing(i + 2) THEN Stop(XML_ENC_ERR_INPUT, out, i)
                 ELSE Store(i, 2, out, Transcode2(xlattable, d % 32, in[i + 2] % 64))
            ELSE IF d < 240
            THEN IF ~(i + 1 < Len(in) - 1) THEN Stop(XML_ENC_ERR_PARTIAL, out, i)
                 ELSE IF ~Trailing(i + 2) THEN Stop(XML_ENC_ERR_INPUT, out, i)
                 ELSE IF ~Trailing(i + 3) THEN Stop(XML_ENC_ERR_INPUT, out, i)
                 ELSE Three(i, out, d % 16, in[i + 2] % 64, in[i + 3] % 64)
            ELSE Stop(XML_ENC_ERR_INPUT, out, i)
        loop(i, out) ==
            IF i < Len(in) THEN Char(i, out, in[i + 1])
            ELSE Res(Len(out), out, Len(out), i)
    IN  IF init THEN Res(0, <<>>, 0, 0) ELSE loop(0, <<>>)

(***************************************************************************)
(* ISO8859xToUTF8.  i is in - instart, stop is instop - instart, out the   *)
(* bytes stored so far, so that outend - out is outlen - Len(out).         *)
(***************************************************************************)
ISO8859xToUTF8(outlen, in, unicodetable) ==
    LET Done(out, i) == Res(Len(out), out, Len(out), i)
        Low(i, out) == i < Len(in) /\ Len(out) < outlen /\ in[i + 1] < 128
        Last(i, out) ==
            IF Low(i, out) THEN Done(Append(out, in[i + 1]), i + 1) ELSE Done(out, i)
        Rest(i, out) ==
            IF Low(i, out) THEN Last(i + 1, Append(out, in[i + 1])) ELSE Last(i, out)
        RECURSIVE outer(_, _, _)
        RECURSIVE copy(_, _, _)
        copy(i, out, stop) ==
            IF i < stop /\ in[i + 1] < 128
            THEN copy(i + 1, Append(out, in[i + 1]), stop)
            ELSE outer(i, out, stop)
        Limit(i, out, stop) ==
            copy(i, out, IF stop - i > outlen - Len(out) THEN i + (outlen - Len(out))
                         ELSE stop)
        High(i, out, stop, c) ==
            IF c = 0 THEN Res(XML_ENC_ERR_INPUT, out, Len(out), i)
            ELSE IF c < 2048
            THEN Limit(i + 1, out \o <<192 + ((c \div 64) % 32), 128 + (c % 64)>>, stop)
            ELSE Limit(i + 1, out \o <<224 + ((c \div 4096) % 16),
                                       128 + ((c \div 64) % 64), 128 + (c % 64)>>, stop)
        outer(i, out, stop) ==
            IF i < Len(in) /\ Len(out) < outlen - 2
            THEN IF in[i + 1] >= 128
                 THEN High(i, out, stop, unicodetable[in[i + 1] - 128 + 1])
                 ELSE Limit(i, out, stop)
            ELSE Rest(i, out)
    IN  outer(0, <<>>, Len(in))

(***************************************************************************)
(* The converters of page n: ISO8859_nToUTF8 and UTF8ToISO8859_n.  One     *)
(* code point cp after a text of ASCII characters is encoded, and what     *)
(* came out is decoded with the room xmlCharEncInput provides (4096).      *)
(* InPage: cp is a character of page n.                                    *)
(***************************************************************************)
IsoPages == DOMAIN xmlunicodetable_ISO8859

IsoTableCodePoints ==
    UNION {{xmlunicodetable_ISO8859[n][k] : k \in 1..128} : n \in IsoPages}

IsoCodePoints ==
    IsoTableCodePoints \cup {65, 127, 2047, 2048, 65535, 65536, 1114111}

IsoPrefixes == {<<>>, <<65>>}

InPage(n, cp) ==
    cp < 128 \/ (cp # 0 /\ \E k \in 1..128 : xmlunicodetable_ISO8859[n][k] = cp)

InitIso ==
    /\ xmlLittleEndian = TRUE
    /\ build = [iconv |-> FALSE, icu |-> FALSE, iso8859x |-> TRUE, html |-> FALSE]
    /\ RegInit
    /\ encoder = NullHandler
    /\ \E n \in IsoPages, cp \in IsoCodePoints, prefix \in IsoPrefixes :
           /\ src = prefix \o Utf8(cp)
           /\ call = [op |-> "none", n |-> n, cp |-> cp, prefix |-> prefix]
    /\ inBuf = NewBuf(src, Len(src) + 1)
    /\ outBuf = NewBuf(<<>>, 4097)
    /\ error = 0

IsoEncode ==
    /\ call.op = "none"
    /\ \E r \in {UTF8ToISO8859x(xmlBufAvail(outBuf), inBuf.content, FALSE,
                                xmltranscodetable_ISO8859[call.n])} :
           /\ outBuf' = [outBuf EXCEPT !.content = r.out]
           /\ inBuf' = xmlBufShrink(inBuf, r.inlen)
           /\ call' = [call EXCEPT !.op = "UTF8ToISO8859x"] @@
                      [ret |-> r.ret, outlen |-> r.outlen, inlen |-> r.inlen]
    /\ UNCHANGED <<xmlLittleEndian, build, regVars, encoder, src, error>>

IsoDecode ==
    /\ call.op = "UTF8ToISO8859x"
    /\ call.ret >= 0
    /\ \E r \in {ISO8859xToUTF8(4096, outBuf.content,
                                xmlunicodetable_ISO8859[call.n])} :
           /\ outBuf' = xmlBufShrink(outBuf, r.inlen)
           /\ call' = [call EXCEPT !.op = "ISO8859xToUTF8", !.ret = r.ret,
                                   !.outlen = r.outlen, !.inlen = r.inlen] @@
                      [decoded |-> r.out]
    /\ UNCHANGED <<xmlLittleEndian, build, regVars, encoder, src, inBuf, error>>

NextIso == IsoEncode \/ IsoDecode

SpecIso == InitIso /\ [][NextIso]_vars

(***************************************************************************)
(* C17: for every page n and every code point cp of the page,              *)
(* UTF8ToISO8859x turns the UTF-8 form of cp into one byte, and            *)
(* ISO8859xToUTF8 turns that byte back into the UTF-8 form of cp; for a    *)
(* code point that is not in the page UTF8ToISO8859x returns               *)
(* XML_ENC_ERR_INPUT, *inlen and *outlen counting the characters before    *)
(* it only.                                                                *)
(***************************************************************************)
C17_RoundTrip ==
    /\ (call.op = "UTF8ToISO8859x" /\ InPage(call.n, call.cp))
           => /\ call.ret = Len(call.prefix) + 1
              /\ call.outlen = Len(call.prefix) + 1
              /\ call.inlen = Len(src)
              /\ Len(outBuf.content) = Len(call.prefix) + 1
              /\ Take(outBuf.content, Len(call.prefix)) = call.prefix
    /\ (call.op = "UTF8ToISO8859x" /\ ~InPage(call.n, call.cp))
           => /\ call.ret = XML_ENC_ERR_INPUT
              /\ call.inlen = Len(call.prefix)
              /\ call.outlen = Len(call.prefix)
    /\ call.op = "ISO8859xToUTF8"
           => /\ InPage(call.n, call.cp)
              /\ call.decoded = src
              /\ call.ret = Len(src)
              /\ call.inlen = Len(call.prefix) + 1

C17_Witness ==
    /\ call.op = "ISO8859xToUTF8"
    /\ call.n = 15
    /\ call.cp = 8364
    /\ src = <<65, 226, 130, 172>>
    /\ call.decoded = src

(***************************************************************************)
(* The three UTF-16 handlers on the encode side: the calls of SpecEsc on   *)
(* a stream whose output buffer is roomy or has one free byte left.        *)
(***************************************************************************)
BomOutSizes == {2, 4001}

InitBom ==
    /\ xmlLittleEndian \in BOOLEAN
    /\ build = PlainBuild
    /\ RegInit
    /\ encoder \in {DefaultRef(i) : i \in 1..3}
    /\ src \in {Utf8Text(cps) : cps \in SeqsUpTo(EscCodePoints, MaxCps)}
    /\ inBuf = NewBuf(src, Len(src) + 1)
    /\ outBuf \in {NewBuf(<<>>, sz) : sz \in BomOutSizes}
    /\ error = 0
    /\ call = [op |-> "none"]

SpecBom == InitBom /\ [][NextEsc]_vars

(***************************************************************************)
(* C18: the handler named "UTF-16" decodes with UTF16LEToUTF8; its         *)
(* initialization call appends the bytes FF FE to the output and the       *)
(* initialization call of "UTF-16LE" and "UTF-16BE" appends nothing; a     *)
(* data call of any of the three (no reallocation failing) appends the     *)
(* UTF-16 form of the text and nothing else.  The initialization call is   *)
(* the first call of a stream, so the output then starts with one mark.    *)
(***************************************************************************)
C18_AsStated ==
    [][/\ Deref(DefaultRef(3)).name = N_UTF_16
       /\ Deref(DefaultRef(3)).input = "UTF16LEToUTF8"
       /\ (call'.op \in {"xmlCharEncOutput", "xmlCharEncOutFunc"} /\ call'.init)
              => outBuf'.content
                   = outBuf.content \o (IF encoder = DefaultRef(3) THEN <<255, 254>>
                                        ELSE <<>>)
       /\ (/\ call'.op \in {"xmlCharEncOutput", "xmlCharEncOutFunc"}
           /\ ~call'.init
           /\ call'.failAt = 0
           /\ ~outBuf.error)
              => outBuf'.content
                   = outBuf.content
                       \o EscapedText(Deref(encoder).name, CodePointsOf(inBuf.content))
      ]_vars

(***************************************************************************)
(* xmlCharEncCloseFunc.  closeFails says that iconv_close returns an       *)
(* error.  The result has the value returned and the heap.                 *)
(***************************************************************************)
xmlCharEncCloseFunc_NoRegistry(b, tab, nb, mem, handler, closeFails) ==
    LET Close(h, iconv, icu) ==
            [ret |-> IF iconv /\ closeFails THEN -1 ELSE 0,
             heap |-> IF iconv \/ icu
                      THEN xmlFree([mem EXCEPT ![handler.idx].h =
                                       [h EXCEPT !.iconv_in = NULL, !.iconv_out = NULL,
                                                 !.uconv_in = NULL, !.uconv_out = NULL]],
                                   handler)
                      ELSE mem]
        Backends(h) ==
            Close(h, b.iconv /\ (h.iconv_out # NULL \/ h.iconv_in # NULL),
                  b.icu /\ (h.uconv_out # NULL \/ h.uconv_in # NULL))
    IN  IF handler = NullHandler THEN [ret |-> -1, heap |-> mem]
        ELSE IF handler.seg = "default" THEN [ret |-> 0, heap |-> mem]
        ELSE Backends(mem[handler.idx].h)

xmlCharEncCloseFunc(b, tab, nb, mem, handler, closeFails) ==
    LET Close(h, iconv, icu) ==
            [ret |-> IF iconv /\ closeFails THEN -1 ELSE 0,
             heap |-> IF iconv \/ icu
                      THEN xmlFree([mem EXCEPT ![handler.idx].h =
                                       [h EXCEPT !.iconv_in = NULL, !.iconv_out = NULL,
                                                 !.uconv_in = NULL, !.uconv_out = NULL]],
                                   handler)
                      ELSE mem]
        Backends(h) ==
            Close(h, b.iconv /\ (h.iconv_out # NULL \/ h.iconv_in # NULL),
                  b.icu /\ (h.uconv_out # NULL \/ h.uconv_in # NULL))
    IN  IF handler = NullHandler THEN [ret |-> -1, heap |-> mem]
        ELSE IF handler.seg = "default" THEN [ret |-> 0, heap |-> mem]
        ELSE IF ~tab.null /\ \E i \in 1..nb : tab.tab[i] = handler
        THEN [ret |-> 0, heap |-> mem]
        ELSE Backends(mem[handler.idx].h)

(***************************************************************************)
(* Opening and closing handlers: handlers are registered, names are        *)
(* resolved (which creates backend handlers), a backend handler is put     *)
(* into the registry by its owner, and any handler the program holds is    *)
(* closed.  A handler that was freed is not closed again.                  *)
(***************************************************************************)
CloseBuilds ==
    {[iconv |-> FALSE, icu |-> FALSE, iso8859x |-> TRUE, html |-> TRUE],
     [iconv |-> TRUE, icu |-> TRUE, iso8859x |-> FALSE, html |-> FALSE],
     [iconv |-> FALSE, icu |-> TRUE, iso8859x |-> FALSE, html |-> FALSE]}

CloseNames == {Str(N_ASCII), Str(N_ISO_8859_2), Str(N_UTF_16)}

InRegistry(handler) ==
    ~handlers.null /\ \E i \in 1..nbCharEncodingHandler : handlers.tab[i] = handler

BackendCreated(h) ==
    \/ build.iconv /\ (h.iconv_in # NULL \/ h.iconv_out # NULL)
    \/ build.icu /\ (h.uconv_in # NULL \/ h.uconv_out # NULL)

InitClose ==
    /\ xmlLittleEndian = TRUE
    /\ build \in CloseBuilds
    /\ RegInit
    /\ ConvIdle
    /\ call = [op |-> "none"]

CloseOpen ==
    \E name \in CloseNames, output \in {0, 1} :
        OpenDone("xmlOpenCharEncodingHandler", name, output,
                 xmlOpenCharEncodingHandler(xmlCharEncodingAliases, handlers,
                     nbCharEncodingHandler, heap, name, output, OkEnv))

CloseAdd ==
    \E j \in 1..Len(heap) :
        /\ heap[j].live
        /\ ~InRegistry(HeapRef(j))
        /\ \E r \in {xmlRegisterCharEncodingHandler(handlers, nbCharEncodingHandler, heap,
                                                    HeapRef(j), FALSE)} :
               /\ handlers' = r.handlers
               /\ nbCharEncodingHandler' = r.nb
               /\ heap' = r.heap
               /\ call' = [op |-> "xmlRegisterCharEncodingHandler", handler |-> HeapRef(j)]
        /\ UNCHANGED <<xmlLittleEndian, build, xmlCharEncodingAliases,
                       xmlCharEncodingAliasesNb, xmlCharEncodingAliasesMax, aliasMap,
                       convVars>>

CloseClose ==
    \E handler \in {NullHandler}
                   \cup {DefaultRef(i) : i \in 1..NUM_DEFAULT_HANDLERS(build)}
                   \cup {HeapRef(j) : j \in {k \in 1..Len(heap) : heap[k].live}},
       closeFails \in BOOLEAN :
        \E r \in {xmlCharEncCloseFunc(build, handlers, nbCharEncodingHandler, heap, handler,
                                      closeFails)} :
            /\ heap' = r.heap
            /\ call' = [op |-> "xmlCharEncCloseFunc", handler |-> handler, ret |-> r.ret,
                        registered |-> InRegistry(handler), heapBefore |-> heap]
            /\ UNCHANGED <<xmlLittleEndian, build, xmlCharEncodingAliases,
                           xmlCharEncodingAliasesNb, xmlCharEncodingAliasesMax, handlers,
                           nbCharEncodingHandler, aliasMap, convVars>>

NextClose == OpenRegister \/ CloseOpen \/ CloseAdd \/ CloseClose

SpecClose == InitClose /\ [][NextClose]_vars

(***************************************************************************)
(* C19: xmlCharEncCloseFunc on a built-in handler or on a handler of the   *)
(* registry returns 0 and leaves every handler as it was; a call that      *)
(* frees a handler frees the one it was given, which a backend created     *)
(* and which is not in the registry; and in every state every built-in     *)
(* name resolves, in each direction the built-in handler supports, to      *)
(* the built-in handler.                                                   *)
(***************************************************************************)
C19_CloseSurvival ==
    /\ call.op = "xmlCharEncCloseFunc" =>
           /\ (call.handler.seg = "default" \/ call.registered)
                  => (call.ret = 0 /\ heap = call.heapBefore)
           /\ heap # call.heapBefore
                  => /\ call.handler.seg = "heap"
                     /\ ~call.registered
                     /\ BackendCreated(call.heapBefore[call.handler.idx].h)
                     /\ ~heap[call.handler.idx].live
                     /\ \A j \in 1..Len(heap) :
                            j # call.handler.idx => heap[j] = call.heapBefore[j]
    /\ \A j \in 1..nbCharEncodingHandler : Live(handlers.tab[j])
    /\ \A i \in 1..NUM_DEFAULT_HANDLERS(build), output \in {0, 1} :
           SupportsDirection(defaultHandlers(build)[i], output) =>
               xmlOpenCharEncodingHandler(xmlCharEncodingAliases, handlers,
                   nbCharEncodingHandler, heap, Str(defaultHandlers(build)[i].name),
                   output, OkEnv).out
                 = DefaultRef(FirstIndex(BuiltIns(defaultHandlers(build)[i].name, output)))

C19_Witness ==
    /\ call.op = "xmlCharEncCloseFunc"
    /\ call.handler.seg = "heap"
    /\ call.registered
    /\ BackendCreated(heap[call.handler.idx].h)
    /\ call.ret = 0
    /\ heap[call.handler.idx].live
    /\ \E j \in 1..Len(heap) : ~heap[j].live

(***************************************************************************)
(* C20: in a resolution call, a backend is opened after another opening    *)
(* only when that one failed with XML_ERR_UNSUPPORTED_ENCODING; where the  *)
(* build has both backends, ICU is tried with the name iconv did not       *)
(* recognise; an opening that fails in another way ends the call, which    *)
(* returns that code and a NULL handler; an opening that succeeds ends     *)
(* the call, which returns the handler made for that spelling; and the     *)
(* spellings of a tag are tried in the order of its list.                  *)
(***************************************************************************)
ResolutionCall == call.op \in {"xmlOpenCharEncodingHandler", "xmlLookupCharEncodingHandler"}

C20_FailurePropagation ==
    ResolutionCall =>
        /\ \A i \in 1..Len(call.opened) :
               i < Len(call.opened) => call.opened[i].ret = XML_ERR_UNSUPPORTED_ENCODING
        /\ \A i \in 1..Len(call.opened) :
               (/\ build.iconv /\ build.icu
                /\ call.opened[i] = Opened("iconv", call.opened[i].name,
                                           XML_ERR_UNSUPPORTED_ENCODING))
                   => /\ i < Len(call.opened)
                      /\ call.opened[i + 1].backend = "icu"
                      /\ call.opened[i + 1].name = call.opened[i].name
        /\ \A i \in 1..Len(call.opened) :
               call.opened[i].ret \notin {0, XML_ERR_UNSUPPORTED_ENCODING}
                   => /\ call.ret = call.opened[i].ret
                      /\ call.out = NullHandler
        /\ \A i \in 1..Len(call.opened) :
               call.opened[i].ret = 0
                   => /\ call.ret = 0
                      /\ call.out = HeapRef(Len(heap))
                      /\ Deref(call.out).name = call.opened[i].name
        /\ (call.op = "xmlLookupCharEncodingHandler" /\ LookupNames(call.arg) # <<>>)
               => \A i, j \in 1..Len(call.opened) :
                      i < j => \E k, l \in 1..Len(LookupNames(call.arg)) :
                                   /\ k <= l
                                   /\ LookupNames(call.arg)[k] = call.opened[i].name
                                   /\ LookupNames(call.arg)[l] = call.opened[j].name

C20_Witness ==
    /\ call.op = "xmlLookupCharEncodingHandler"
    /\ call.arg = "XML_CHAR_ENCODING_EBCDIC"
    /\ build.iconv /\ build.icu
    /\ Len(call.opened) = 7
    /\ call.opened[7] = Opened("iconv", <<"I", "B", "M", "-", "0", "3", "7">>,
                               XML_ERR_NO_MEMORY)
    /\ call.ret = XML_ERR_NO_MEMORY
    /\ call.out = NullHandler

(***************************************************************************)
(* Every built-in conversion function called on its own: a source of up    *)
(* to MaxXc bytes (or three UTF-16 units, surrogates among them) and a     *)
(* destination capacity, as the caller passes them in *inlen and *outlen.  *)
(* call keeps the capacity given, the bytes the function stored, and what  *)
(* it left in *outlen and *inlen.  The page converters are those of        *)
(* XcPage.                                                                 *)
(***************************************************************************)
MaxXc == 4

XcPage == 2

XcDecodeBytes == {0, 65, 216, 220, 233}

XcEncodeBytes == {65, 128, 144, 195, 240, 248}

XcCaps == {0, 1, 2, 3, 4, 6, 7, 10, 16}

XcSurrogateTexts ==
    {UnitBytes(units, le) : units \in [1..3 -> {65, 55296, 56320}], le \in BOOLEAN}

XcDecodeSources == SeqsUpTo(XcDecodeBytes, MaxXc) \cup XcSurrogateTexts

XcEncodeSources == SeqsUpTo(XcEncodeBytes, MaxXc)

XcDecoders == {"asciiToUTF8", "isolat1ToUTF8", "UTF16LEToUTF8", "UTF16BEToUTF8",
               "ISO8859xToUTF8"}

XcEncoders == {"UTF8Toascii", "UTF8Toisolat1", "UTF8ToUTF16LE", "UTF8ToUTF16BE",
               "UTF8ToUTF16", "UTF8ToUTF8", "UTF8ToISO8859x"}

XcCall(f, outlen, in) ==
    CASE f = "ISO8859xToUTF8" ->
             ISO8859xToUTF8(outlen, in, xmlunicodetable_ISO8859[XcPage])
      [] f = "UTF8ToISO8859x" ->
             UTF8ToISO8859x(outlen, in, FALSE, xmltranscodetable_ISO8859[XcPage])
      [] f \in XcDecoders \ {"ISO8859xToUTF8"} -> CallInput(f, outlen, in)
      [] OTHER -> CallOutput(f, outlen, in, FALSE)

InitXc ==
    /\ xmlLittleEndian \in BOOLEAN
    /\ build = PlainBuild
    /\ RegInit
    /\ encoder = NullHandler
    /\ src \in XcDecodeSources \cup XcEncodeSources
    /\ inBuf = NewBuf(<<>>, 1)
    /\ outBuf = NewBuf(<<>>, 1)
    /\ error = 0
    /\ call = [op |-> "none"]

XcRecord(f, outlen, r) ==
    [op |-> f, capacity |-> outlen, ret |-> r.ret, out |-> r.out,
     outlen |-> r.outlen, inlen |-> r.inlen]

XcDecode ==
    /\ call.op = "none"
    /\ src \in XcDecodeSources
    /\ \E f \in XcDecoders, outlen \in XcCaps :
           call' = XcRecord(f, outlen, XcCall(f, outlen, src))
    /\ UNCHANGED <<xmlLittleEndian, build, regVars, convVars>>

XcEncode ==
    /\ call.op = "none"
    /\ src \in XcEncodeSources
    /\ \E f \in XcEncoders, outlen \in XcCaps :
           call' = XcRecord(f, outlen, XcCall(f, outlen, src))
    /\ UNCHANGED <<xmlLittleEndian, build, regVars, convVars>>

NextXc == XcDecode \/ XcEncode

SpecXc == InitXc /\ [][NextXc]_vars

(***************************************************************************)
(* s is a sequence of complete UTF-8 sequences: every lead byte is         *)
(* followed by as many trailing bytes as it announces.                     *)
(***************************************************************************)
RECURSIVE Utf8Complete(_)
Utf8Complete(s) ==
    \/ s = <<>>
    \/ /\ Utf8Lead(s[1]).ok
       /\ Len(s) > Utf8Lead(s[1]).trailing
       /\ \A k \in 2 .. 1 + Utf8Lead(s[1]).trailing : s[k] \div 64 = 2
       /\ Utf8Complete(Drop(s, 1 + Utf8Lead(s[1]).trailing))

(* C21: after every call of a built-in conversion function the value left  *)
(* in outlen is the number of bytes stored at the destination, a return    *)
(* value >= 0 equals outlen, a return value < 0 is an error code, and the  *)
(* value left in inlen is the number of source bytes those stored bytes    *)
(* are the conversion of: converting that prefix alone stores the same     *)
(* bytes and consumes all of it (an encoder's prefix that is not made of   *)
(* complete UTF-8 sequences is left out of this last comparison).          *)
C21_AsStated ==
    call.op \in XcDecoders \cup XcEncoders =>
        /\ call.outlen = Len(call.out)
        /\ call.ret >= 0 => call.ret = call.outlen
        /\ call.ret < 0 => call.ret \in XML_ENC_ERR_MEMORY .. XML_ENC_ERR_SPACE
        /\ call.inlen \in 0 .. Len(src)
        /\ \/ call.op \in XcEncoders /\ ~Utf8Complete(Take(src, call.inlen))
           \/ \E r \in {XcCall(call.op, call.capacity, Take(src, call.inlen))} :
                  /\ r.out = call.out
                  /\ r.inlen = call.inlen

(***************************************************************************)
(* The chunk functions with every kind of handler: built-in (ASCII,        *)
(* UTF-16LE, ISO-8859-1), iconv, ICU, and a handler made by                *)
(* xmlNewCharEncodingHandler(name, NULL, NULL), which has no converter.    *)
(***************************************************************************)
MaxPartial == 3

PartialBytes == {0, 65, 128, 195}

PartialCapacities == {0, 4, 16}

PartialHeap == xmlMalloc(InHeap, MAKE_HANDLER(N_LATIN2, NULL, NULL))

PartialEncoders ==
    {xmlAsciiHandler, xmlUTF16LEHandler, xmlLatin1Handler,
     HeapRef(1), HeapRef(2), HeapRef(3)}

InitPartial ==
    /\ xmlLittleEndian = TRUE
    /\ build = InBuild
    /\ xmlCharEncodingAliases = [null |-> TRUE, tab |-> <<>>]
    /\ xmlCharEncodingAliasesNb = 0
    /\ xmlCharEncodingAliasesMax = 0
    /\ handlers = [null |-> TRUE, tab |-> <<>>]
    /\ nbCharEncodingHandler = 0
    /\ heap = PartialHeap
    /\ aliasMap = <<>>
    /\ encoder \in PartialEncoders
    /\ src \in SeqsUpTo(PartialBytes, MaxPartial)
    /\ inBuf = NewBuf(src, Len(src) + 1)
    /\ outBuf = NewBuf(<<>>, 1)
    /\ error = 0
    /\ \E capacity \in PartialCapacities, dir \in {"decode", "encode"} :
         call = [op |-> "none", capacity |-> capacity, dir |-> dir]

SpecPartial == InitPartial /\ [][NextChunk]_vars

BuiltIn(h) == h.input # NULL \/ h.output # NULL

(* C22: xmlEncInputChunk and xmlEncOutputChunk never return                *)
(* XML_ENC_ERR_PARTIAL, whatever the handler.  Where a call consumed less  *)
(* than all of its input and produced nothing (a built-in converter that   *)
(* stopped short, a backend that reported an incomplete sequence), the     *)
(* input side returns XML_ENC_ERR_SUCCESS, or XML_ENC_ERR_INPUT when the   *)
(* built-in converter rejected the next byte, and the output side returns  *)
(* XML_ENC_ERR_INTERNAL, or XML_ENC_ERR_INPUT likewise.                    *)
C22_NoPartial ==
    call.op \in {"xmlEncInputChunk", "xmlEncOutputChunk"} =>
        /\ call.ret # XML_ENC_ERR_PARTIAL
        /\ call.ret \in XML_ENC_ERR_MEMORY .. XML_ENC_ERR_SUCCESS
        /\ \/ BuiltIn(Deref(encoder)) /\ call.consumed < call.remaining
                                      /\ call.produced = 0
           \/ ~BuiltIn(Deref(encoder))
              /\ call.backend \in {"EINVAL", "U_TRUNCATED_CHAR_FOUND"}
           => call.ret \in {IF call.op = "xmlEncInputChunk" THEN XML_ENC_ERR_SUCCESS
                            ELSE XML_ENC_ERR_INTERNAL}
                           \cup (IF BuiltIn(Deref(encoder)) THEN {XML_ENC_ERR_INPUT}
                                 ELSE {})

C22_Witness ==
    /\ call.op = "xmlEncInputChunk"
    /\ encoder = HeapRef(1)
    /\ call.backend = "EINVAL"
    /\ call.consumed < call.remaining
    /\ call.produced = 0
    /\ call.ret = XML_ENC_ERR_SUCCESS

(***************************************************************************)
(* The UTF-16 units of a source in the byte order of the decoder called,   *)
(* and what the surrogate rule makes of them: the code points before the   *)
(* first high surrogate that has no low surrogate after it, the number of  *)
(* units they take, and whether that high surrogate is followed by a unit  *)
(* at all (bad) or is the last unit (it is left for the next call).        *)
(***************************************************************************)
XcUnits(le) ==
    [k \in 1 .. Len(src) \div 2 |->
        IF le THEN src[2 * k - 1] + 256 * src[2 * k]
        ELSE 256 * src[2 * k - 1] + src[2 * k]]

HighSurrogate(u) == u \in 55296 .. 56319

LowSurrogate(u) == u \in 56320 .. 57343

RECURSIVE SurrogateRule(_, _, _)
SurrogateRule(units, k, cps) ==
    IF k > Len(units) THEN [cps |-> cps, units |-> k - 1, bad |-> FALSE]
    ELSE IF ~HighSurrogate(units[k])
    THEN SurrogateRule(units, k + 1, Append(cps, units[k]))
    ELSE IF k = Len(units) THEN [cps |-> cps, units |-> k - 1, bad |-> FALSE]
    ELSE IF ~LowSurrogate(units[k + 1]) THEN [cps |-> cps, units |-> k - 1, bad |-> TRUE]
    ELSE SurrogateRule(units, k + 2,
             Append(cps, ((units[k] % 1024) * 1024 + (units[k + 1] % 1024)) + 65536))

XcUtf16Call == call.op \in {"UTF16LEToUTF8", "UTF16BEToUTF8"} /\ call.capacity = 16

(* C23: UTF16LEToUTF8 and UTF16BEToUTF8, given room for the whole output:  *)
(* a unit in 0xD800-0xDBFF followed by a unit outside 0xDC00-0xDFFF makes  *)
(* the call return XML_ENC_ERR_INPUT with the consumed and stored counts   *)
(* covering only what precedes it; a valid pair is stored as the 4 UTF-8   *)
(* bytes of ((high & 0x3FF) << 10 | (low & 0x3FF)) + 0x10000; a high       *)
(* surrogate that is the last complete unit is left unconsumed and the     *)
(* call returns the count of bytes stored, no error.                       *)
C23_SurrogateRule ==
    XcUtf16Call =>
        \E e \in {SurrogateRule(XcUnits(call.op = "UTF16LEToUTF8"), 1, <<>>)} :
            /\ call.out = Utf8Text(e.cps)
            /\ call.outlen = Len(call.out)
            /\ call.inlen = 2 * e.units
            /\ call.ret = IF e.bad THEN XML_ENC_ERR_INPUT ELSE Len(call.out)

C23_Witness ==
    /\ XcUtf16Call
    /\ Len(src) = 6
    /\ HighSurrogate(XcUnits(call.op = "UTF16LEToUTF8")[2])
    /\ ~LowSurrogate(XcUnits(call.op = "UTF16LEToUTF8")[3])
    /\ call.ret = XML_ENC_ERR_INPUT
    /\ call.inlen = 2
    /\ call.out = <<65>>

(***************************************************************************)
(* Where the first malformed sequence of s starts, scanning from byte i:   *)
(* a continuation byte in lead position, a lead byte >= 0xF8, or a lead    *)
(* byte whose next byte, when s has one, is no continuation byte.  0 when  *)
(* there is none before the end of s or before a sequence cut short.       *)
(***************************************************************************)
RECURSIVE MalformedAt(_, _)
MalformedAt(s, i) ==
    IF i > Len(s) THEN 0
    ELSE IF ~Utf8Lead(s[i]).ok THEN i
    ELSE IF Utf8Lead(s[i]).trailing = 0 THEN MalformedAt(s, i + 1)
    ELSE IF i = Len(s) THEN 0
    ELSE IF s[i + 1] \div 64 # 2 THEN i
    ELSE IF \E k \in i + 2 .. i + Utf8Lead(s[i]).trailing : k > Len(s) \/ s[k] \div 64 # 2
    THEN 0
    ELSE MalformedAt(s, i + 1 + Utf8Lead(s[i]).trailing)

XcMalformedCall ==
    /\ call.op \in {"UTF8Toascii", "UTF8Toisolat1", "UTF8ToUTF16LE", "UTF8ToUTF16BE",
                    "UTF8ToISO8859x"}
    /\ call.capacity = 16
    /\ MalformedAt(src, 1) # 0

(* C24: a built-in encoder given a source with a malformed sequence (a     *)
(* continuation byte in lead position, a lead byte >= 0xF8, a lead byte    *)
(* whose next byte is no continuation byte) and room for the whole output  *)
(* returns XML_ENC_ERR_INPUT and consumes nothing of that sequence.        *)
C24_AsStated ==
    XcMalformedCall =>
        /\ call.ret = XML_ENC_ERR_INPUT
        /\ call.inlen < MalformedAt(src, 1)

(***************************************************************************)
(* The sizes at which the growth policy of xmlCharEncOutput and            *)
(* xmlCharEncInput shows: texts around the 64 KiB that one call of         *)
(* xmlCharEncOutput converts and output buffers around the 256 KiB it      *)
(* offers for the output side, and texts and buffers around the 4096       *)
(* bytes of room xmlCharEncInput asks for on the input side.  The          *)
(* converters are those of the iconv and ICU backends.                     *)
(***************************************************************************)
GrowthText(len) == [i \in 1..len |-> 65]

GrowthStreams ==
    {[output |-> 1, len |-> len, size |-> size] :
        len \in {1, 64 * 1024, 64 * 1024 + 1},
        size \in {1, 5, 256 * 1024 + 1, 256 * 1024 + 2}}
    \cup {[output |-> 0, len |-> len, size |-> size] :
            len \in {1, BigLen},
            size \in {1, 4096, 4097, 6000}}

InitGrowth ==
    /\ xmlLittleEndian = TRUE
    /\ build = InBuild
    /\ xmlCharEncodingAliases = [null |-> TRUE, tab |-> <<>>]
    /\ xmlCharEncodingAliasesNb = 0
    /\ xmlCharEncodingAliasesMax = 0
    /\ handlers = [null |-> TRUE, tab |-> <<>>]
    /\ nbCharEncodingHandler = 0
    /\ heap = InHeap
    /\ aliasMap = <<>>
    /\ encoder \in {HeapRef(1), HeapRef(2)}
    /\ error = 0
    /\ \E g \in GrowthStreams :
         /\ src = GrowthText(g.len)
         /\ inBuf = NewBuf(src, Len(src) + 1)
         /\ outBuf = NewBuf(<<>>, g.size)
         /\ call = [op |-> "none", output |-> g.output, nth |-> 0, rawconsumed |-> 0,
                    removed |-> 0]

SpecGrowth == InitGrowth /\ [][NextIn]_vars

(* C25: every call xmlCharEncOutput makes of the handler with text to      *)
(* convert passes at most 65536 source bytes and a capacity c_out with     *)
(* 4 * c_in <= c_out <= 262144, and every call xmlCharEncInput makes of    *)
(* the handler passes a capacity of at least 4096 bytes.                   *)
C25_GrowthPolicy ==
    /\ call.op = "xmlCharEncOutput" =>
           \A k \in DOMAIN call.args :
               /\ call.args[k].c_in <= 65536
               /\ 4 * call.args[k].c_in <= call.args[k].c_out
               /\ call.args[k].c_out <= 262144
    /\ call.op = "xmlCharEncInput" =>
           \A k \in DOMAIN call.args : call.args[k].c_out >= 4096

C25_Witness ==
    /\ call.op = "xmlCharEncOutput"
    /\ call.toconv > 65536
    /\ call.before = 0
    /\ Len(call.args) = 1
    /\ call.args[1] = [left |-> 65537, c_in |-> 65536, c_out |-> 262144]

(* C26: after any sequence of xmlCharEncInput calls on one input,          *)
(* rawconsumed equals the number of bytes the calls removed from the raw   *)
(* buffer (call keeps both totals).                                        *)
C26_AsStated ==
    call.op = "xmlCharEncInput" => call.rawconsumed = call.removed

(***************************************************************************)
(* A raw UTF-16 input delivered in pieces: each step appends the next      *)
(* piece of src to the raw buffer (inBuf) and calls xmlCharEncInput, which *)
(* decodes into outBuf.  call.fed counts the bytes of src delivered so     *)
(* far; one piece of Len(src) bytes is the call on the whole input.        *)
(***************************************************************************)
MaxSplit == 4

SplitBytes == {0, 65, 216, 220}

InitSplit ==
    /\ xmlLittleEndian \in BOOLEAN
    /\ build = PlainBuild
    /\ RegInit
    /\ encoder \in {xmlUTF16LEHandler, xmlUTF16BEHandler}
    /\ src \in SeqsUpTo(SplitBytes, MaxSplit) \cup XcSurrogateTexts
    /\ inBuf = NewBuf(<<>>, 1)
    /\ outBuf = NewBuf(<<>>, 1)
    /\ error = 0
    /\ call = [op |-> "none", fed |-> 0, nth |-> 0]

SplitFeed ==
    /\ call.op \in {"none", "xmlCharEncInput"}
    /\ call.fed < Len(src)
    /\ \E k \in 1 .. Len(src) - call.fed :
       \E raw \in {NewBuf(inBuf.content \o SubSeq(src, call.fed + 1, call.fed + k),
                          Len(src) + 1)} :
       \E r \in {xmlCharEncInput(Deref(encoder), raw, outBuf, error, NoEnv)} :
           /\ inBuf' = r.in
           /\ outBuf' = r.out
           /\ error' = r.error
           /\ call' = [op |-> "xmlCharEncInput", fed |-> call.fed + k,
                       nth |-> call.nth + 1, ret |-> r.ret, init |-> FALSE,
                       input |-> raw.content, args |-> r.args]
    /\ UNCHANGED <<xmlLittleEndian, build, regVars, encoder, src>>

NextSplit == SplitFeed

SpecSplit == InitSplit /\ [][NextSplit]_vars

(* C27: with the UTF-16LE and UTF-16BE decoders, after the pieces of a raw *)
(* input were delivered one by one, split at any byte positions, each      *)
(* followed by a call of xmlCharEncInput, the decoded bytes and the bytes  *)
(* left in the raw buffer are those of one call on all that was delivered; *)
(* and when everything is delivered and no high surrogate is followed by a *)
(* unit that is no low surrogate, the raw buffer holds exactly the bytes   *)
(* of the incomplete last unit or of the trailing high surrogate, and no   *)
(* error is recorded.                                                      *)
C27_SplitInvariance ==
    call.op = "xmlCharEncInput" =>
        /\ \E whole \in {xmlCharEncInput(Deref(encoder),
                                         NewBuf(Take(src, call.fed), Len(src) + 1),
                                         NewBuf(<<>>, 1), 0, NoEnv)} :
               /\ outBuf.content = whole.out.content
               /\ inBuf.content = whole.in.content
        /\ call.fed = Len(src) =>
               \E e \in {SurrogateRule(XcUnits(encoder = xmlUTF16LEHandler), 1, <<>>)} :
                   ~e.bad => /\ outBuf.content = Utf8Text(e.cps)
                             /\ inBuf.content = Drop(src, 2 * e.units)
                             /\ error = 0

C27_Witness ==
    /\ call.op = "xmlCharEncInput"
    /\ call.fed = Len(src)
    /\ call.nth = 4
    /\ Len(src) = 4
    /\ outBuf.content = Utf8(65536)
    /\ inBuf.content = <<>>

(***************************************************************************)
(* The retry loops with the built-in handlers: a stream either encodes the *)
(* text in its buffer (xmlCharEncOutput or xmlCharEncOutFunc, call after   *)
(* call until nothing is left) or decodes a raw input delivered in pieces  *)
(* (xmlCharEncInput).  The texts are any bytes, well formed or not.  An    *)
(* encoding stream starts with all of src delivered (call.fed), so that    *)
(* nothing is fed to it.                                                   *)
(***************************************************************************)
MaxRetry == 3

InitRetry ==
    /\ xmlLittleEndian \in BOOLEAN
    /\ build = PlainBuild
    /\ RegInit
    /\ encoder \in EscEncoders
    /\ error = 0
    /\ \/ /\ src \in SeqsUpTo(XcEncodeBytes, MaxRetry)
                     \cup {Utf8Text(cps) : cps \in SeqsUpTo(EscCodePoints, MaxCps)}
          /\ inBuf = NewBuf(src, Len(src) + 1)
          /\ outBuf \in {NewBuf(<<>>, sz) : sz \in EscOutSizes}
          /\ call = [op |-> "none", fed |-> Len(src), nth |-> 0]
       \/ /\ src \in SeqsUpTo(XcDecodeBytes, MaxRetry) \cup XcSurrogateTexts
          /\ inBuf = NewBuf(<<>>, 1)
          /\ outBuf = NewBuf(<<>>, 1)
          /\ call = [op |-> "none", fed |-> 0, nth |-> 0]

NextRetry == EscOutput \/ EscOutFunc \/ SplitFeed

SpecRetry == InitRetry /\ [][NextRetry]_vars

RetryCall ==
    /\ call.op \in {"xmlCharEncInput", "xmlCharEncOutput", "xmlCharEncOutFunc"}
    /\ ~call.init

(* C28: with a built-in handler every call of xmlCharEncInput,             *)
(* xmlCharEncOutput and xmlCharEncOutFunc returns, and each pass of its    *)
(* retry loop after the first (after XML_ENC_ERR_SPACE or after a          *)
(* character reference was substituted) starts with strictly fewer         *)
(* unconverted source bytes than the pass before: the number of passes is  *)
(* at most the number of source bytes, or is one.  (The                    *)
(* call returning is the action being defined on every state: its value    *)
(* is computed by running the loop.)                                       *)
C28_Progress ==
    RetryCall =>
        /\ \A i \in 1 .. Len(call.args) - 1 :
               call.args[i + 1].left < call.args[i].left
        /\ \A i \in 1 .. Len(call.args) :
               /\ call.args[i].left <= Len(call.input)
               /\ call.args[i].c_in <= call.args[i].left
        /\ Len(call.args) <= Len(call.input) \/ Len(call.args) = 1

C28_Witness ==
    /\ call.op = "xmlCharEncOutput"
    /\ ~call.init
    /\ Len(call.args) = 3
    /\ call.args[3].left = 1
    /\ inBuf.content = <<>>

(* C29: no built-in transcoder stores more bytes than the capacity passed  *)
(* in outlen, and the outlen it reports is at most that capacity, for any  *)
(* input and any capacity, UTF8ToISO8859x included (call.out is what the   *)
(* function stored from the start of the destination).                     *)
C29_AsStated ==
    call.op # "none" =>
        /\ Len(call.out) <= call.capacity
        /\ call.outlen <= call.capacity

(***************************************************************************)
(* The alias table filled beyond its first allocation of 20 entries.  The  *)
(* aliases are numbered: the first is a 100-character alias, spelled with  *)
(* either last character, the others are two letters, spelled in lower or  *)
(* in upper case.  With n entries in the table an add takes alias 1, 2, n  *)
(* or n + 1, with any allocation failing; a remove is given the stored     *)
(* alias of the last entry, in a table of fewer than FillMiddle entries    *)
(* also that of the first one, or a spelling that is stored nowhere.       *)
(***************************************************************************)
MaxFill == 21

FillMiddle == 3

FillAlias(k, v) ==
    IF k = 1 THEN LongAlias(IF v THEN "X" ELSE "Y")
    ELSE IF v THEN <<"x", LowerCase[k]>> ELSE <<"X", UpperCase[k]>>

FillNames(k) ==
    IF k = 1 THEN AliasNames ELSE {<<"U", "T", "F", "-", "1", "6">>}

InitFill ==
    /\ xmlLittleEndian = TRUE
    /\ build = PlainBuild
    /\ RegInit
    /\ ConvIdle
    /\ call = [op |-> "none"]

FillAdd ==
    \E k \in {1, 2, xmlCharEncodingAliasesNb, xmlCharEncodingAliasesNb + 1}
              \cap (1 .. MaxFill),
       v \in BOOLEAN,
       fail \in {"none", "realloc", "name", "alias"} :
      \E name \in FillNames(k) :
        \E r \in {xmlAddEncodingAlias(xmlCharEncodingAliases, xmlCharEncodingAliasesNb,
                                      xmlCharEncodingAliasesMax, name,
                                      FillAlias(k, v), fail)} :
            /\ AliasSet(r)
            /\ aliasMap' = aliasMap
            /\ call' = [op |-> "xmlAddEncodingAlias", name |-> name,
                        alias |-> FillAlias(k, v), ret |-> r.ret, fail |-> fail,
                        before |-> xmlCharEncodingAliases]

FillDel ==
    \E alias \in {FillAlias(1, TRUE), FillAlias(2, TRUE)}
                 \cup {xmlCharEncodingAliases.tab[i].alias :
                          i \in ({Len(xmlCharEncodingAliases.tab)}
                                 \cup (1 .. (FillMiddle - Len(xmlCharEncodingAliases.tab))))
                                \cap DOMAIN xmlCharEncodingAliases.tab} :
        \E r \in {xmlDelEncodingAlias(xmlCharEncodingAliases, xmlCharEncodingAliasesNb,
                                      xmlCharEncodingAliasesMax, alias)} :
            /\ AliasSet(r)
            /\ aliasMap' = aliasMap
            /\ call' = [op |-> "xmlDelEncodingAlias", alias |-> alias, ret |-> r.ret,
                        before |-> xmlCharEncodingAliases]

NextFill == FillAdd \/ FillDel \/ AliasCleanup

SpecFill == InitFill /\ [][NextFill]_vars

(* C30: in every state reached by xmlAddEncodingAlias, xmlDelEncodingAlias *)
(* and xmlCleanupEncodingAliases the entry count is between 0 and the      *)
(* allocated capacity and is the number of entries, no two entries have    *)
(* the same alias, an add that returns 0 leaves an entry whose alias is    *)
(* the uppercased first 99 characters of the alias passed and whose name   *)
(* is the name passed, and the other entries as they were, an add that     *)
(* returns -1 leaves the entries as they were, and after cleanup the count *)
(* is 0 and every lookup returns NULL.                                     *)
C30_RegistryInvariants ==
    LET tab == xmlCharEncodingAliases.tab
    IN  /\ 0 <= xmlCharEncodingAliasesNb
        /\ xmlCharEncodingAliasesNb <= xmlCharEncodingAliasesMax
        /\ xmlCharEncodingAliasesNb = Len(tab)
        /\ \A i, j \in 1..Len(tab) : tab[i].alias = tab[j].alias => i = j
        /\ \A i \in 1..Len(tab) :
               /\ Len(tab[i].alias) <= 99
               /\ tab[i].alias = UpperCopy(tab[i].alias, 99)
        /\ (call.op = "xmlAddEncodingAlias" /\ call.ret = 0) =>
               \E i \in 1..Len(tab) :
                   /\ tab[i] = [name |-> call.name,
                                alias |-> UpperCopy(call.alias, 99)]
                   /\ Len(call.before.tab) \in {Len(tab), i - 1}
                   /\ \A j \in 1..Len(call.before.tab) :
                          IF j = i THEN call.before.tab[j].alias = tab[i].alias
                          ELSE call.before.tab[j] = tab[j]
        /\ (call.op = "xmlAddEncodingAlias" /\ call.ret # 0) =>
               /\ call.ret = -1
               /\ call.fail # "none"
               /\ tab = call.before.tab
        /\ call.op = "xmlCleanupEncodingAliases" =>
               /\ xmlCharEncodingAliasesNb = 0
               /\ \A k \in 1..MaxFill, v \in BOOLEAN :
                      xmlGetEncodingAlias(xmlCharEncodingAliases, FillAlias(k, v)) = NullStr

C30_Witness ==
    /\ call.op = "xmlAddEncodingAlias"
    /\ call.ret = -1
    /\ call.fail = "alias"
    /\ xmlCharEncodingAliasesNb = 20
    /\ xmlCharEncodingAliasesMax = 40
    /\ xmlCharEncodingAliases.tab[1].alias = UpperCopy(LongAlias("X"), 99)

====
